---- MODULE Spec2Model ----
(***************************************************************************)
(* Model of the SongCode converter core: PatternTransformer, ChordParser,  *)
(* MeasureCounter, PatternExpander, TimeSignatureValidator, the section    *)
(* measure budget with LyricTimingValidator, MeasureStacker and            *)
(* PromptItemBuilder (resolveRepeatSymbols, optimizePattern).              *)
(*                                                                         *)
(* Conventions.  A JavaScript string is a sequence of one-character        *)
(* strings; indices i, startIndex, endIndex ... are the 0-based indices of *)
(* the source and charAt/substring translate them.  A thrown SongCodeError *)
(* is a record whose field error holds the error code ("" when nothing was *)
(* thrown).  An optional value (section.repeat, section.cutStart ...) is   *)
(* the empty tuple when undefined.  The PatternJSON value null is the      *)
(* empty sequence: parsePattern returns null exactly when it produced no   *)
(* element.                                                                *)
(***************************************************************************)
EXTENDS Integers, Sequences, FiniteSets, TLC

VARIABLES
  pc,              \* position of the run: which operation comes next
  err,             \* code of the SongCodeError thrown by the last operation, "" if none
  pattern,         \* PatternTransformer.transform: the pattern string
  result,          \* PatternTransformer.transform: TransformResult {json, measures}
  counted,         \* MeasureCounter.count(result.json)
  expanded,        \* PatternExpander.expand(result.json)
  measure,         \* TimeSignatureValidator.validate: the measure
  timeSignature,   \* TimeSignatureValidator.validate: the time signature
  section,         \* Section: repeat, cutStart, cutEnd, lyrics
  patternMeasures, \* convert Step 3.2: pattern?.measures || 0
  beforeCount,     \* convert Step 3.2: section.before?.measures || 0
  afterCount,      \* convert Step 3.2: section.after?.measures || 0
  finalMeasures,   \* convert Step 3.2: sectionMeasures entry of the section
  measures,        \* Measure[] argument of stack / resolveRepeatSymbols / optimizePattern
  beforeMeasures,  \* MeasureStacker.stack: expanded _before measures
  afterMeasures,   \* MeasureStacker.stack: expanded _after measures
  stacked,         \* MeasureStacker.stack: returned list
  resolved,        \* PromptItemBuilder.resolveRepeatSymbols: returned list
  optimized,       \* PromptItemBuilder.optimizePattern: {repeats, pattern}
  reoptimized,     \* optimizePattern applied to optimized.pattern
  beforePattern,   \* section.before.sc, undefined without a _before modifier
  afterPattern,    \* section.after.sc, undefined without an _after modifier
  beforeResult,    \* convert Phase 2: json and measures of section.before
  afterResult,     \* convert Phase 2: json and measures of section.after
  sectionTime,     \* section.time: [numerator, denominator] of an @time override
  prompter,        \* convert Phase 4: the content items pushed so far
  chordInput,      \* ChordParser.parse: the chord string
  parsedChord,     \* ChordParser.parse: the returned [base, extension]
  sections,        \* convert on a song of several sections: the Section[] of Phase 1
  patterns,        \* convert: per section, the transformed pattern and _before pattern
  sectionMeasures  \* convert Step 3.2: the sectionMeasures map

vars == <<pc, err, pattern, result, counted, expanded, measure, timeSignature,
          section, patternMeasures, beforeCount, afterCount, finalMeasures,
          measures, beforeMeasures, afterMeasures, stacked, resolved,
          optimized, reoptimized, beforePattern, afterPattern, beforeResult,
          afterResult, sectionTime, prompter, chordInput, parsedChord,
          sections, patterns, sectionMeasures>>

transformVars == <<pattern, result, counted, expanded>>
beatVars == <<measure, timeSignature>>
budgetVars == <<patternMeasures, beforeCount, afterCount, finalMeasures>>
stackVars == <<beforeMeasures, afterMeasures, stacked>>
builderVars == <<resolved, optimized, reoptimized>>
convertVars == <<beforePattern, afterPattern, beforeResult, afterResult,
                 sectionTime, prompter>>
chordVars == <<chordInput, parsedChord>>
songVars == <<sections, patterns, sectionMeasures>>

-----------------------------------------------------------------------------
(* Strings *)

Min(a, b) == IF a < b THEN a ELSE b

Max(a, b) == IF a > b THEN a ELSE b

charAt(s, i) == IF i >= 0 /\ i < Len(s) THEN s[i + 1] ELSE ""

substring(s, from, to) == SubSeq(s, from + 1, to)

\* characters String.prototype.trim and the regular expression \s remove
WhiteSpace == {" ", "\t", "\n", "\r", "\f"}

Digits == {"0", "1", "2", "3", "4", "5", "6", "7", "8", "9"}

DigitValue(c) ==
  CASE c = "0" -> 0 [] c = "1" -> 1 [] c = "2" -> 2 [] c = "3" -> 3
    [] c = "4" -> 4 [] c = "5" -> 5 [] c = "6" -> 6 [] c = "7" -> 7
    [] c = "8" -> 8 [] c = "9" -> 9

DigitChar(d) == <<"0", "1", "2", "3", "4", "5", "6", "7", "8", "9">>[d + 1]

RECURSIVE parseInt(_)
\* parseInt(str, 10) of a non-empty run of decimal digits
parseInt(str) ==
  IF str = <<>> THEN 0
  ELSE parseInt(SubSeq(str, 1, Len(str) - 1)) * 10 + DigitValue(str[Len(str)])

RECURSIVE numberToString(_)
\* `${n}` of a non-negative integer
numberToString(n) ==
  IF n < 10 THEN <<DigitChar(n)>>
  ELSE numberToString(n \div 10) \o <<DigitChar(n % 10)>>

RECURSIVE trimStart(_)
trimStart(s) ==
  IF s # <<>> /\ Head(s) \in WhiteSpace THEN trimStart(Tail(s)) ELSE s

RECURSIVE trimEnd(_)
trimEnd(s) ==
  IF s # <<>> /\ s[Len(s)] \in WhiteSpace
  THEN trimEnd(SubSeq(s, 1, Len(s) - 1)) ELSE s

trim(s) == trimEnd(trimStart(s))

\* (s.match(/c/g) || []).length
matchCount(s, c) == Cardinality({i \in 1..Len(s) : s[i] = c})

RECURSIVE splitFrom(_, _, _, _)
splitFrom(s, i, cur, acc) ==
  IF i > Len(s) THEN (IF cur = <<>> THEN acc ELSE Append(acc, cur))
  ELSE IF s[i] \in WhiteSpace
       THEN splitFrom(s, i + 1, <<>>, IF cur = <<>> THEN acc ELSE Append(acc, cur))
       ELSE splitFrom(s, i + 1, Append(cur, s[i]), acc)

\* content.split(/\s+/).filter(s => s !== '')
splitWords(s) == splitFrom(s, 1, <<>>, <<>>)

-----------------------------------------------------------------------------
(* Measures and pattern elements *)

\* a chord tuple [base, extension]
Chord(base, extension) == [isArray |-> TRUE, base |-> base, ext |-> extension]

\* a bare symbol string: '%', '_', '=', '-'
Symbol(c) == [isArray |-> FALSE, base |-> <<c>>, ext |-> <<>>]

\* elements of a PatternJSON: a measure (an array) or a marker string
MeasureItem(positions) == [kind |-> "measure", positions |-> positions, digits |-> <<>>]

LoopStart == [kind |-> "loopStart", positions |-> <<>>, digits |-> <<>>]

\* a loop closed by a second loopStart marker
LoopEndItem_AsStart(repeatCount) ==
  [kind |-> "loopStart", positions |-> <<>>, digits |-> <<>>]

\* the string `loopEnd:${repeatCount}`
LoopEndItem(repeatCount) ==
  [kind |-> "loopEnd:", positions |-> <<>>, digits |-> numberToString(repeatCount)]

NewLine == [kind |-> "newLine", positions |-> <<>>, digits |-> <<>>]

-----------------------------------------------------------------------------
(* ChordParser *)

VALID_ROOTS == {"A", "B", "C", "D", "E", "F", "G"}

VALID_ACCIDENTALS == {"#", "b"}

\* parse taking every 'm' after the root as the minor marker
ChordParserParse_GreedyMinor(str) ==
  IF trim(str) = <<>> THEN [error |-> "E2.1.1", chord |-> Chord(<<>>, <<>>)]
  ELSE
    LET trimmed == trim(str)
        root == charAt(trimmed, 0)
    IN IF root \notin VALID_ROOTS
       THEN [error |-> "E2.1.1", chord |-> Chord(<<>>, <<>>)]
       ELSE
         LET hasAccidental == 1 < Len(trimmed) /\ charAt(trimmed, 1) \in VALID_ACCIDENTALS
             base1 == IF hasAccidental THEN <<root, charAt(trimmed, 1)>> ELSE <<root>>
             pos1 == IF hasAccidental THEN 2 ELSE 1
             hasMinor == pos1 < Len(trimmed) /\ charAt(trimmed, pos1) = "m"
             base == IF hasMinor THEN base1 \o <<"m">> ELSE base1
             pos == IF hasMinor THEN pos1 + 1 ELSE pos1
             extension == IF pos < Len(trimmed) THEN substring(trimmed, pos, Len(trimmed)) ELSE <<>>
         IN [error |-> "", chord |-> Chord(base, extension)]

ChordParserParse(chord) ==
  IF trim(chord) = <<>> THEN [error |-> "E2.1.1", chord |-> Chord(<<>>, <<>>)]
  ELSE
    LET trimmed == trim(chord)
        root == charAt(trimmed, 0)
    IN IF root \notin VALID_ROOTS
       THEN [error |-> "E2.1.1", chord |-> Chord(<<>>, <<>>)]
       ELSE
         LET hasAccidental == 1 < Len(trimmed) /\ charAt(trimmed, 1) \in VALID_ACCIDENTALS
             base1 == IF hasAccidental THEN <<root, charAt(trimmed, 1)>> ELSE <<root>>
             pos1 == IF hasAccidental THEN 2 ELSE 1
             nextChar == IF pos1 + 1 < Len(trimmed) THEN charAt(trimmed, pos1 + 1) ELSE ""
             hasMinor == pos1 < Len(trimmed) /\ charAt(trimmed, pos1) = "m" /\ nextChar # "a"
             base == IF hasMinor THEN base1 \o <<"m">> ELSE base1
             pos == IF hasMinor THEN pos1 + 1 ELSE pos1
             extension == IF pos < Len(trimmed) THEN substring(trimmed, pos, Len(trimmed)) ELSE <<>>
         IN [error |-> "", chord |-> Chord(base, extension)]

-----------------------------------------------------------------------------
(* PatternTransformer *)

RECURSIVE parseItems_AnyRemover(_, _, _, _)
\* the item loop without the test that a chord precedes a remover
parseItems_AnyRemover(items, j, acc, hasChord) ==
  IF j > Len(items) THEN [error |-> "", measure |-> acc]
  ELSE IF items[j] = <<"=">>
       THEN parseItems_AnyRemover(items, j + 1, Append(acc, Symbol("=")), hasChord)
       ELSE LET chord == ChordParserParse(items[j])
            IN IF chord.error # "" THEN [error |-> chord.error, measure |-> <<>>]
               ELSE parseItems_AnyRemover(items, j + 1, Append(acc, chord.chord), TRUE)

RECURSIVE parseItems(_, _, _, _)
\* the for loop of parseMeasure over the whitespace-separated items
parseItems(items, j, acc, hasChord) ==
  IF j > Len(items) THEN [error |-> "", measure |-> acc]
  ELSE IF items[j] = <<"=">>
       THEN IF ~hasChord THEN [error |-> "E2.1.2", measure |-> <<>>]
            ELSE parseItems(items, j + 1, Append(acc, Symbol("=")), hasChord)
       ELSE LET chord == ChordParserParse(items[j])
            IN IF chord.error # "" THEN [error |-> chord.error, measure |-> <<>>]
               ELSE parseItems(items, j + 1, Append(acc, chord.chord), TRUE)

RECURSIVE measureEnd(_, _)
\* index of the first ';', ':' or '[' at or after i, or pattern.length
measureEnd(s, i) ==
  IF i < Len(s) /\ charAt(s, i) \notin {";", ":", "["} THEN measureEnd(s, i + 1) ELSE i

parseMeasure(s, startIndex) ==
  LET i == measureEnd(s, startIndex)
      content == trim(substring(s, startIndex, i))
  IN IF content \in {<<"%">>, <<"_">>, <<"-">>}
     THEN [error |-> "", measure |-> <<Symbol(content[1])>>, endIndex |-> i]
     ELSE LET parsed == parseItems(splitWords(content), 1, <<>>, FALSE)
          IN [error |-> parsed.error, measure |-> parsed.measure, endIndex |-> i]

RECURSIVE findClose(_, _, _)
\* the bracket scan of parseLoop: index of the matching ']' or -1
findClose(s, i, depth) ==
  IF i >= Len(s) THEN -1
  ELSE LET d1 == IF charAt(s, i) = "[" THEN depth + 1 ELSE depth
           d2 == IF charAt(s, i) = "]" THEN d1 - 1 ELSE d1
       IN IF charAt(s, i) = "]" /\ d2 = 0 THEN i ELSE findClose(s, i + 1, d2)

RECURSIVE digitsEnd(_, _)
digitsEnd(s, i) ==
  IF i < Len(s) /\ charAt(s, i) \in Digits THEN digitsEnd(s, i + 1) ELSE i

RECURSIVE parsePatternFrom(_, _, _)
RECURSIVE parsePattern(_)
RECURSIVE parseLoop(_, _)

\* parseLoop without the MissingRepeatCount test: a loop without digits
\* repeats once
parseLoop_DefaultCount(s, startIndex) ==
  LET closeIndex == findClose(s, startIndex, 0)
  IN IF closeIndex = -1
     THEN [error |-> "E2.1.3", loopContent |-> <<>>, endIndex |-> 0, repeatCount |-> 0]
     ELSE
       LET loopContent == parsePattern(substring(s, startIndex + 1, closeIndex))
       IN IF loopContent.error # ""
          THEN [error |-> loopContent.error, loopContent |-> <<>>, endIndex |-> 0, repeatCount |-> 0]
          ELSE
            LET endIndex == digitsEnd(s, closeIndex + 1)
                repeatStr == substring(s, closeIndex + 1, endIndex)
            IN [error |-> "", loopContent |-> loopContent.json, endIndex |-> endIndex,
                repeatCount |-> IF repeatStr = <<>> THEN 1 ELSE parseInt(repeatStr)]

parseLoop(s, startIndex) ==
  LET closeIndex == findClose(s, startIndex, 0)
  IN IF closeIndex = -1
     THEN [error |-> "E2.1.3", loopContent |-> <<>>, endIndex |-> 0, repeatCount |-> 0]
     ELSE
       LET loopContent == parsePattern(substring(s, startIndex + 1, closeIndex))
       IN IF loopContent.error # ""
          THEN [error |-> loopContent.error, loopContent |-> <<>>, endIndex |-> 0, repeatCount |-> 0]
          ELSE
            LET endIndex == digitsEnd(s, closeIndex + 1)
                repeatStr == substring(s, closeIndex + 1, endIndex)
            IN IF repeatStr = <<>>
               THEN [error |-> "E2.1.4", loopContent |-> <<>>, endIndex |-> 0, repeatCount |-> 0]
               ELSE [error |-> "", loopContent |-> loopContent.json,
                     endIndex |-> endIndex, repeatCount |-> parseInt(repeatStr)]

\* the while loop of parsePattern, from index i with the elements pushed so far
parsePatternFrom(s, i, acc) ==
  IF i >= Len(s) THEN [error |-> "", json |-> acc]
  ELSE
    LET char == charAt(s, i)
    IN CASE char = "[" ->
              LET loop == parseLoop(s, i)
              IN IF loop.error # "" THEN [error |-> loop.error, json |-> <<>>]
                 ELSE parsePatternFrom(s, loop.endIndex,
                        acc \o <<LoopStart>> \o loop.loopContent
                            \o <<LoopEndItem(loop.repeatCount)>>)
         [] char = ":" -> parsePatternFrom(s, i + 1, Append(acc, NewLine))
         [] char = ";" -> parsePatternFrom(s, i + 1, acc)
         [] char \in {" ", "\t", "\n"} -> parsePatternFrom(s, i + 1, acc)
         [] OTHER ->
              LET m == parseMeasure(s, i)
              IN IF m.error # "" THEN [error |-> m.error, json |-> <<>>]
                 ELSE parsePatternFrom(s, m.endIndex, Append(acc, MeasureItem(m.measure)))

parsePattern(s) == parsePatternFrom(s, 0, <<>>)

isLoopEnd(item) == item.kind = "loopEnd:"

\* loopEnd.match(/loopEnd:(\d+)/) then parseInt
extractRepeatCount(loopEnd) ==
  IF loopEnd.digits # <<>> THEN parseInt(loopEnd.digits) ELSE 1

RECURSIVE loopEndIndex(_, _)
\* the inner while loop of count / countMeasures: first loopEnd at or after i
loopEndIndex(json, i) ==
  IF i < Len(json) /\ ~isLoopEnd(json[i + 1]) THEN loopEndIndex(json, i + 1) ELSE i

RECURSIVE countFrom(_, _, _)
countFrom(json, i, count) ==
  IF i >= Len(json) THEN count
  ELSE
    LET item == json[i + 1]
    IN IF item.kind = "loopStart"
       THEN LET e == loopEndIndex(json, i + 1)
                loopCount == countFrom(substring(json, i + 1, e), 0, 0)
            IN IF e < Len(json)
               THEN countFrom(json, e + 1, count + loopCount * extractRepeatCount(json[e + 1]))
               ELSE countFrom(json, e + 1, count)
       ELSE IF item.kind = "measure" THEN countFrom(json, i + 1, count + 1)
       ELSE countFrom(json, i + 1, count)

countMeasures(json) == countFrom(json, 0, 0)

\* transform with the bracket count compared after parsing instead of before
PatternTransformerTransform_ParseFirst(p) ==
  IF trim(p) = <<>> THEN [error |-> "", json |-> <<>>, measures |-> 0]
  ELSE
    LET trimmed == trim(p)
        parsed == parsePattern(trimmed)
    IN IF parsed.error # "" THEN [error |-> parsed.error, json |-> <<>>, measures |-> 0]
       ELSE IF matchCount(trimmed, "[") # matchCount(trimmed, "]")
            THEN [error |-> "E2.1.3", json |-> <<>>, measures |-> 0]
            ELSE [error |-> "", json |-> parsed.json, measures |-> countMeasures(parsed.json)]

PatternTransformerTransform(p) ==
  IF trim(p) = <<>> THEN [error |-> "", json |-> <<>>, measures |-> 0]
  ELSE
    LET trimmed == trim(p)
        openCount == matchCount(trimmed, "[")
        closeCount == matchCount(trimmed, "]")
    IN IF openCount # closeCount THEN [error |-> "E2.1.3", json |-> <<>>, measures |-> 0]
       ELSE LET parsed == parsePattern(trimmed)
            IN IF parsed.error # "" THEN [error |-> parsed.error, json |-> <<>>, measures |-> 0]
               ELSE [error |-> "", json |-> parsed.json, measures |-> countMeasures(parsed.json)]

-----------------------------------------------------------------------------
(* MeasureCounter *)

MeasureCounterCount(json) == countFrom(json, 0, 0)

-----------------------------------------------------------------------------
(* PatternExpander *)

RECURSIVE repeatList(_, _)
\* n successive push(...list) calls
repeatList(list, n) == IF n <= 0 THEN <<>> ELSE list \o repeatList(list, n - 1)

RECURSIVE expandLoop_KeepNewLine(_, _, _)
\* the inner loop buffering a newLine marker like a measure
expandLoop_KeepNewLine(p, i, loopContent) ==
  IF i >= Len(p) THEN [pushed |-> <<>>, i |-> i]
  ELSE
    LET item == p[i + 1]
    IN IF item.kind = "loopEnd:"
       THEN LET repeatCount == parseInt(IF item.digits # <<>> THEN item.digits ELSE <<"1">>)
            IN [pushed |-> repeatList(loopContent, repeatCount), i |-> i + 1]
       ELSE IF item.kind \in {"measure", "newLine"}
            THEN expandLoop_KeepNewLine(p, i + 1, Append(loopContent, item.positions))
            ELSE expandLoop_KeepNewLine(p, i + 1, loopContent)

RECURSIVE expandLoop(_, _, _)
\* the inner while loop of expand, entered after a loopStart: the measures
\* pushed to result and the index reached
expandLoop(p, i, loopContent) ==
  IF i >= Len(p) THEN [pushed |-> <<>>, i |-> i]
  ELSE
    LET item == p[i + 1]
    IN IF item.kind = "loopEnd:"
       THEN LET repeatCount == parseInt(IF item.digits # <<>> THEN item.digits ELSE <<"1">>)
            IN [pushed |-> repeatList(loopContent, repeatCount), i |-> i + 1]
       ELSE IF item.kind = "measure"
            THEN expandLoop(p, i + 1, Append(loopContent, item.positions))
            ELSE expandLoop(p, i + 1, loopContent)

RECURSIVE expandFrom(_, _, _)
expandFrom(p, i, acc) ==
  IF i >= Len(p) THEN acc
  ELSE
    LET element == p[i + 1]
    IN IF element.kind = "loopStart"
       THEN LET loop == expandLoop(p, i + 1, <<>>)
            IN expandFrom(p, loop.i, acc \o loop.pushed)
       ELSE IF element.kind = "measure"
            THEN expandFrom(p, i + 1, Append(acc, element.positions))
            ELSE expandFrom(p, i + 1, acc)

PatternExpanderExpand(p) == expandFrom(p, 0, <<>>)

-----------------------------------------------------------------------------
(* Pattern strings the transformer is run on *)

\* longest pattern string, in tokens
MaxTokens == 4

MaxChordLen == 4

Tokens ==
  {<<"[">>, <<"]">>, <<"]", "2">>, <<"]", "0">>, <<"A">>, <<";">>, <<":">>,
   <<" ", "=">>, <<"H">>}

RECURSIVE TokenStrings(_)
TokenStrings(n) ==
  IF n = 0 THEN {<<>>}
  ELSE LET shorter == TokenStrings(n - 1)
       IN shorter \cup {s \o t : s \in shorter, t \in Tokens}

\* loops whose repeat count has more than one digit
LongCountStrings ==
  {<<"[", "A", "]", "1", "2">>, <<"[", "A", "]", "1", "0", "A">>}

\* separators with nothing or only whitespace between them
SeparatorStrings ==
  {<<";", "A", ";", ";", "A", ";">>, <<"A", ";", " ", "\t", "\n", ";", "A">>,
   <<"A", ";", "\r", ";", "A">>, <<"A", ":", "\r", "[", "A", "]", "2">>}

\* every string of at most MaxTokens tokens, bare and as the body of a loop
PatternStrings ==
  TokenStrings(MaxTokens)
    \cup {<<"[">> \o s \o <<"]", "3">> : s \in TokenStrings(MaxTokens)}
    \cup LongCountStrings
    \cup SeparatorStrings

\* chord strings: a root or a wrong letter, accidentals, 'm', 'a', an extension
ChordChars == {"A", "H", "#", "b", "m", "a", "7"}

ChordStrings == UNION {[1..k -> ChordChars] : k \in 0..MaxChordLen}

NoResult == [error |-> "", json |-> <<>>, measures |-> 0]

TransformIdle ==
  /\ pattern = <<>>
  /\ result = NoResult
  /\ counted = 0
  /\ expanded = <<>>

-----------------------------------------------------------------------------
(* TimeSignatureValidator *)

\* a JavaScript number a / b that need not be an integer, kept exact
quotient(a, b) == [num |-> a, den |-> b]

times(k, q) == [num |-> k * q.num, den |-> q.den]

\* q >= n, for q.den > 0
atLeast(q, n) == q.num >= n * q.den

removerCountOf(m) == Cardinality({i \in 1..Len(m) : m[i] = Symbol("=")})

\* totalBeats % positionCount !== 0 (NaN when positionCount is 0)
notDivisible(totalBeats, positionCount) ==
  positionCount = 0 \/ totalBeats % positionCount # 0

\* validate with symbols that are not chords left out of the position count
TimeSignatureValidatorValidate_ChordsOnly(m, ts) ==
  LET totalBeats == ts.numerator
      removerCount == removerCountOf(m)
      positionCount == Cardinality({i \in 1..Len(m) : m[i].isArray}) + removerCount
  IN IF notDivisible(totalBeats, positionCount) THEN "E3.1.1"
     ELSE IF totalBeats - removerCount * (totalBeats \div positionCount) <= 0
          THEN "E3.1.2" ELSE ""

\* validate without the remover check that precedes the division check
TimeSignatureValidatorValidate_NoPriority(m, ts) ==
  LET totalBeats == ts.numerator
      positionCount == Len(m)
      removerCount == removerCountOf(m)
  IN IF notDivisible(totalBeats, positionCount) THEN "E3.1.1"
     ELSE IF totalBeats - removerCount * (totalBeats \div positionCount) <= 0
          THEN "E3.1.2" ELSE ""

\* validate with the removers left out of the position count
TimeSignatureValidatorValidate_SkipRemovers(m, ts) ==
  LET totalBeats == ts.numerator
      removerCount == removerCountOf(m)
      positionCount == Len(m) - removerCount
  IN IF notDivisible(totalBeats, positionCount) THEN "E3.1.1"
     ELSE IF totalBeats - removerCount * (totalBeats \div positionCount) <= 0
          THEN "E3.1.2" ELSE ""

TimeSignatureValidatorValidate(m, ts) ==
  LET totalBeats == ts.numerator
      positionCount == Len(m)
      removerCount == removerCountOf(m)
      nonRemoverCount == positionCount - removerCount
  IN IF /\ removerCount > 0
        /\ notDivisible(totalBeats, positionCount)
        /\ nonRemoverCount > 0
        /\ atLeast(times(removerCount, quotient(totalBeats, nonRemoverCount)), totalBeats)
     THEN "E3.1.2"
     ELSE IF notDivisible(totalBeats, positionCount) THEN "E3.1.1"
     ELSE LET beatsPerPosition == totalBeats \div positionCount
              beatsRemoved == removerCount * beatsPerPosition
              beatsRemaining == totalBeats - beatsRemoved
          IN IF beatsRemaining <= 0 THEN "E3.1.2" ELSE ""

-----------------------------------------------------------------------------
(* Section measure budget (convert, Step 3.2) and LyricTimingValidator *)

Undefined == <<>>

\* if (section.repeat): defined and not 0
truthy(optional) == optional # Undefined /\ optional[1] # 0

\* measures + (beats > 0 ? 1 : 0) of a cut modifier, 0 when it is undefined
cutTotal(cut) ==
  IF cut = Undefined THEN 0 ELSE cut[1] + (IF cut[2] > 0 THEN 1 ELSE 0)

sectionMeasuresOf(sec, pm, bm, am) ==
  LET repeated == IF truthy(sec.repeat) THEN pm * sec.repeat[1] ELSE pm
      afterCutStart == repeated - cutTotal(sec.cutStart)
      afterCutEnd == afterCutStart - cutTotal(sec.cutEnd)
  IN afterCutEnd + bm + am

\* lyric.match(/_(\d+)$/): the captured digits, or the empty string when
\* the line does not end in an underscore followed by digits
RECURSIVE trailingDigitsStart(_, _)
trailingDigitsStart(s, i) ==
  IF i > 0 /\ charAt(s, i - 1) \in Digits THEN trailingDigitsStart(s, i - 1) ELSE i

timingMatch(lyric) ==
  LET start == trailingDigitsStart(lyric, Len(lyric))
  IN IF start < Len(lyric) /\ start > 0 /\ charAt(lyric, start - 1) = "_"
     THEN substring(lyric, start, Len(lyric))
     ELSE <<>>

\* /_[^\d]/.test(lyric) || lyric.endsWith('_')
badTimingFormat(lyric) ==
  \/ \E i \in 0..(Len(lyric) - 2) :
       charAt(lyric, i) = "_" /\ charAt(lyric, i + 1) \notin Digits
  \/ (lyric # <<>> /\ charAt(lyric, Len(lyric) - 1) = "_")

RECURSIVE lyricTimingFrom_NoFormat(_, _, _, _)
\* validate without the bad-format test on a line that has no trailing _<digits>
lyricTimingFrom_NoFormat(lyrics, i, sumMeasures, totalMeasures) ==
  IF i >= Len(lyrics)
  THEN (IF sumMeasures # totalMeasures THEN "E3.4.4" ELSE "")
  ELSE
    LET lyric == lyrics[i + 1]
    IN IF lyric = <<>> \/ timingMatch(lyric) = <<>> THEN "E3.4.1"
       ELSE LET measureCount == parseInt(timingMatch(lyric))
            IN IF measureCount <= 0 THEN "E3.4.3"
               ELSE lyricTimingFrom_NoFormat(lyrics, i + 1, sumMeasures + measureCount,
                                             totalMeasures)

RECURSIVE lyricTimingFrom(_, _, _, _)
lyricTimingFrom(lyrics, i, sumMeasures, totalMeasures) ==
  IF i >= Len(lyrics)
  THEN (IF sumMeasures # totalMeasures THEN "E3.4.4" ELSE "")
  ELSE
    LET lyric == lyrics[i + 1]
    IN IF lyric = <<>> THEN "E3.4.1"
       ELSE IF timingMatch(lyric) = <<>>
            THEN (IF badTimingFormat(lyric) THEN "E3.4.2" ELSE "E3.4.1")
            ELSE LET measureCount == parseInt(timingMatch(lyric))
                 IN IF measureCount <= 0 THEN "E3.4.3"
                    ELSE lyricTimingFrom(lyrics, i + 1, sumMeasures + measureCount, totalMeasures)

LyricTimingValidatorValidate(lyrics, totalMeasures) ==
  lyricTimingFrom(lyrics, 0, 0, totalMeasures)

-----------------------------------------------------------------------------
(* MeasureStacker *)

\* Array.prototype.slice(start, end): negative indices count from the end
slice(list, start, end) ==
  LET len == Len(list)
      from == IF start < 0 THEN Max(len + start, 0) ELSE Min(start, len)
      to == IF end < 0 THEN Max(len + end, 0) ELSE Min(end, len)
  IN SubSeq(list, from + 1, to)

\* stack with _before / _after attached before the cuts are taken
MeasureStackerStack_CutLast(ms, sec, before, after) ==
  LET repeated == IF truthy(sec.repeat) /\ sec.repeat[1] > 1
                  THEN repeatList(ms, sec.repeat[1]) ELSE ms
      attached == before \o repeated \o after
      afterCutStart == IF sec.cutStart # Undefined
                       THEN slice(attached, cutTotal(sec.cutStart), Len(attached))
                       ELSE attached
  IN IF sec.cutEnd # Undefined
     THEN slice(afterCutStart, 0, Len(afterCutStart) - cutTotal(sec.cutEnd))
     ELSE afterCutStart

MeasureStackerStack(ms, sec, before, after) ==
  LET repeated == IF truthy(sec.repeat) /\ sec.repeat[1] > 1
                  THEN repeatList(ms, sec.repeat[1]) ELSE ms
      afterCutStart == IF sec.cutStart # Undefined
                       THEN slice(repeated, cutTotal(sec.cutStart), Len(repeated))
                       ELSE repeated
      afterCutEnd == IF sec.cutEnd # Undefined
                     THEN slice(afterCutStart, 0, Len(afterCutStart) - cutTotal(sec.cutEnd))
                     ELSE afterCutStart
      withBefore == IF Len(before) > 0 THEN before \o afterCutEnd ELSE afterCutEnd
  IN IF Len(after) > 0 THEN withBefore \o after ELSE withBefore

-----------------------------------------------------------------------------
(* PromptItemBuilder *)

RECURSIVE resolveMeasure_LastPosition(_, _, _, _, _)
\* a % with no earlier chord in its measure takes only the last position of
\* the previous measure
resolveMeasure_LastPosition(m, j, newMeasure, previousChordInMeasure, previousMeasure) ==
  IF j > Len(m) THEN [error |-> "", newMeasure |-> newMeasure]
  ELSE IF m[j] = Symbol("%")
       THEN IF previousChordInMeasure # Undefined
            THEN resolveMeasure_LastPosition(m, j + 1,
                   Append(newMeasure, previousChordInMeasure[1]),
                   previousChordInMeasure, previousMeasure)
            ELSE IF Len(previousMeasure) > 0
                 THEN resolveMeasure_LastPosition(m, j + 1,
                        Append(newMeasure, previousMeasure[Len(previousMeasure)]),
                        previousChordInMeasure, previousMeasure)
                 ELSE [error |-> "E4.1.1", newMeasure |-> <<>>]
       ELSE resolveMeasure_LastPosition(m, j + 1, Append(newMeasure, m[j]),
                                        <<m[j]>>, previousMeasure)

RECURSIVE resolveMeasure_MeasureOnly(_, _, _, _, _)
\* a % is resolved from the previous measure only, never from its own measure
resolveMeasure_MeasureOnly(m, j, newMeasure, previousChordInMeasure, previousMeasure) ==
  IF j > Len(m) THEN [error |-> "", newMeasure |-> newMeasure]
  ELSE IF m[j] = Symbol("%")
       THEN IF Len(previousMeasure) > 0
            THEN resolveMeasure_MeasureOnly(m, j + 1, newMeasure \o previousMeasure,
                                            previousChordInMeasure, previousMeasure)
            ELSE [error |-> "E4.1.1", newMeasure |-> <<>>]
       ELSE resolveMeasure_MeasureOnly(m, j + 1, Append(newMeasure, m[j]),
                                       <<m[j]>>, previousMeasure)

RECURSIVE resolveMeasure(_, _, _, _, _)
\* the inner for loop of resolveRepeatSymbols over the positions of a measure
resolveMeasure(m, j, newMeasure, previousChordInMeasure, previousMeasure) ==
  IF j > Len(m) THEN [error |-> "", newMeasure |-> newMeasure]
  ELSE IF m[j] = Symbol("%")
       THEN IF previousChordInMeasure # Undefined
            THEN resolveMeasure(m, j + 1, Append(newMeasure, previousChordInMeasure[1]),
                                previousChordInMeasure, previousMeasure)
            ELSE IF Len(previousMeasure) > 0
                 THEN resolveMeasure(m, j + 1, newMeasure \o previousMeasure,
                                     previousChordInMeasure, previousMeasure)
                 ELSE [error |-> "E4.1.1", newMeasure |-> <<>>]
       ELSE resolveMeasure(m, j + 1, Append(newMeasure, m[j]), <<m[j]>>, previousMeasure)

RECURSIVE resolveFrom_DropEmpty(_, _, _, _)
\* the outer loop pushing a resolved measure only when it is not empty
resolveFrom_DropEmpty(ms, i, acc, previousMeasure) ==
  IF i > Len(ms) THEN [error |-> "", resolved |-> acc]
  ELSE LET r == resolveMeasure(ms[i], 1, <<>>, Undefined, previousMeasure)
       IN IF r.error # "" THEN [error |-> r.error, resolved |-> <<>>]
          ELSE resolveFrom_DropEmpty(ms, i + 1,
                 IF Len(r.newMeasure) > 0 THEN Append(acc, r.newMeasure) ELSE acc,
                 IF Len(r.newMeasure) > 0 THEN r.newMeasure ELSE previousMeasure)

RECURSIVE resolveFrom(_, _, _, _)
\* the outer for loop; previousMeasure null is the empty list
resolveFrom(ms, i, acc, previousMeasure) ==
  IF i > Len(ms) THEN [error |-> "", resolved |-> acc]
  ELSE LET r == resolveMeasure(ms[i], 1, <<>>, Undefined, previousMeasure)
       IN IF r.error # "" THEN [error |-> r.error, resolved |-> <<>>]
          ELSE resolveFrom(ms, i + 1, Append(acc, r.newMeasure),
                           IF Len(r.newMeasure) > 0 THEN r.newMeasure ELSE previousMeasure)

resolveRepeatSymbols(ms) == resolveFrom(ms, 1, <<>>, <<>>)

\* positions compared by their first component only
itemsEqual_BaseOnly(itemA, itemB) ==
  IF itemA.isArray = itemB.isArray THEN itemA.base = itemB.base ELSE FALSE

\* the comparison of two positions in arraysEqual
itemsEqual(itemA, itemB) ==
  IF ~itemA.isArray /\ ~itemB.isArray THEN itemA.base = itemB.base
  ELSE IF itemA.isArray /\ itemB.isArray
       THEN itemA.base = itemB.base /\ itemA.ext = itemB.ext
       ELSE FALSE

arraysEqual(a, b) ==
  /\ Len(a) = Len(b)
  /\ \A i \in 1..Len(a) :
       /\ Len(a[i]) = Len(b[i])
       /\ \A j \in 1..Len(a[i]) : itemsEqual(a[i][j], b[i][j])

\* a single halving step instead of the while loop
optimizeLoop_Once(repeats, pat) ==
  IF Len(pat) > 1 /\ Len(pat) % 2 = 0
        /\ arraysEqual(slice(pat, 0, Len(pat) \div 2), slice(pat, Len(pat) \div 2, Len(pat)))
  THEN [repeats |-> repeats * 2, pattern |-> slice(pat, 0, Len(pat) \div 2)]
  ELSE [repeats |-> repeats, pattern |-> pat]

RECURSIVE optimizeLoop(_, _)
optimizeLoop(repeats, pat) ==
  IF Len(pat) > 1 /\ Len(pat) % 2 = 0
  THEN LET halfLength == Len(pat) \div 2
           firstHalf == slice(pat, 0, halfLength)
           secondHalf == slice(pat, halfLength, Len(pat))
       IN IF arraysEqual(firstHalf, secondHalf)
          THEN optimizeLoop(repeats * 2, firstHalf)
          ELSE [repeats |-> repeats, pattern |-> pat]
  ELSE [repeats |-> repeats, pattern |-> pat]

optimizePattern(ms) == optimizeLoop(1, ms)

-----------------------------------------------------------------------------
(* LyricPairer and the content items of convert *)

RECURSIVE pairFrom(_, _, _)
\* the for loop of pair: a line without a trailing _<digits> is skipped
pairFrom(lyrics, i, pairs) ==
  IF i > Len(lyrics) THEN pairs
  ELSE LET lyric == lyrics[i]
           digits == timingMatch(lyric)
       IN IF digits = <<>> THEN pairFrom(lyrics, i + 1, pairs)
          ELSE pairFrom(lyrics, i + 1,
                 Append(pairs,
                   [text |-> trim(substring(lyric, 0, Len(lyric) - (Len(digits) + 1))),
                    measures |-> parseInt(digits)]))

LyricPairerPair(lyrics, measureCount) ==
  IF Len(lyrics) = 0 THEN <<[text |-> <<>>, measures |-> measureCount]>>
  ELSE pairFrom(lyrics, 1, <<>>)

\* buildContentItem: the chords entry of the item and its lyrics
buildContentItem(lyricMeasures, text) ==
  LET o == optimizePattern(lyricMeasures)
  IN [repeats |-> o.repeats, pattern |-> o.pattern, lyrics |-> text]

RECURSIVE buildItems(_, _, _, _)
\* the for loop of convert over the lyric pairs: slice, then build
buildItems(ms, lyricPairs, k, items) ==
  IF k > Len(lyricPairs) THEN items
  ELSE LET lyricMeasures == slice(ms, 0, lyricPairs[k].measures)
           rest == slice(ms, lyricPairs[k].measures, Len(ms))
       IN buildItems(rest, lyricPairs, k + 1,
                     Append(items, buildContentItem(lyricMeasures, lyricPairs[k].text)))

\* the measures (arrays) of a PatternJSON, markers skipped
measuresOf(json) ==
  LET idx == {i \in 1..Len(json) : json[i].kind = "measure"}
      f[i \in 0..Len(json)] ==
        IF i = 0 THEN <<>>
        ELSE IF i \in idx THEN Append(f[i - 1], json[i].positions) ELSE f[i - 1]
  IN f[Len(json)]

RECURSIVE validateAll(_, _, _)
\* the loop over the elements of one pattern json: the first error thrown
validateAll(ms, i, ts) ==
  IF i > Len(ms) THEN ""
  ELSE LET e == TimeSignatureValidatorValidate(ms[i], ts)
       IN IF e # "" THEN e ELSE validateAll(ms, i + 1, ts)

RECURSIVE firstError(_)
\* the error thrown by a loop whose iterations would throw these codes
firstError(errors) ==
  IF errors = <<>> THEN ""
  ELSE IF errors[1] # "" THEN errors[1] ELSE firstError(Tail(errors))

RECURSIVE songPrompterFrom_SkipFailed(_, _, _, _)
\* the Phase 4 loop going on to the next section when a % cannot be resolved
songPrompterFrom_SkipFailed(secs, pats, i, items) ==
  IF i > Len(secs) THEN [error |-> "", prompter |-> items]
  ELSE IF pats[i].pattern.json = <<>>
       THEN songPrompterFrom_SkipFailed(secs, pats, i + 1, items)
  ELSE LET r == resolveRepeatSymbols(PatternExpanderExpand(pats[i].pattern.json))
       IN IF r.error # "" \/ Len(secs[i].lyrics) = 0
          THEN songPrompterFrom_SkipFailed(secs, pats, i + 1, items)
          ELSE LET beforeList == IF pats[i].before.json # <<>>
                                 THEN PatternExpanderExpand(pats[i].before.json) ELSE <<>>
                   stackedList == MeasureStackerStack(r.resolved, secs[i], beforeList, <<>>)
               IN songPrompterFrom_SkipFailed(secs, pats, i + 1,
                    buildItems(stackedList,
                               LyricPairerPair(secs[i].lyrics, Len(stackedList)), 1, items))

RECURSIVE songPrompterFrom(_, _, _, _)
\* the Phase 4 loop of convert over the sections: expand, resolve, stack,
\* pair and push the content items; the first error is thrown
songPrompterFrom(secs, pats, i, items) ==
  IF i > Len(secs) THEN [error |-> "", prompter |-> items]
  ELSE IF pats[i].pattern.json = <<>> THEN songPrompterFrom(secs, pats, i + 1, items)
  ELSE LET r == resolveRepeatSymbols(PatternExpanderExpand(pats[i].pattern.json))
       IN IF r.error # "" THEN [error |-> r.error, prompter |-> <<>>]
          ELSE IF Len(secs[i].lyrics) = 0 THEN songPrompterFrom(secs, pats, i + 1, items)
          ELSE LET beforeList == IF pats[i].before.json # <<>>
                                 THEN PatternExpanderExpand(pats[i].before.json) ELSE <<>>
                   stackedList == MeasureStackerStack(r.resolved, secs[i], beforeList, <<>>)
               IN songPrompterFrom(secs, pats, i + 1,
                    buildItems(stackedList,
                               LyricPairerPair(secs[i].lyrics, Len(stackedList)), 1, items))

\* transform and count of one pattern string, as Phase 2 stores them
compilePattern(sc) ==
  CHOOSE compiledPattern \in
     {IF r.error # "" THEN r
      ELSE [error |-> "", json |-> r.json, measures |-> MeasureCounterCount(r.json)] :
        r \in {PatternTransformerTransform(sc)}} : TRUE

-----------------------------------------------------------------------------
(* Inputs *)

SeqsUpTo(S, n) == UNION {[1..k -> S] : k \in 0..n}

A == Chord(<<"A">>, <<>>)

B == Chord(<<"B">>, <<>>)

C == Chord(<<"C">>, <<>>)

A7 == Chord(<<"A">>, <<"7">>)

\* most positions of a measure given to the time signature validator
MaxPositions == 4

\* largest time signature numerator
MaxNumerator == 6

BeatMeasures == SeqsUpTo({A, Symbol("%"), Symbol("_"), Symbol("=")}, MaxPositions)

TimeSignatures == [numerator : 1..MaxNumerator, denominator : {2, 4}]

RECURSIVE WordStrings(_)
\* n words, each a chord, a remover or a repeat symbol, separated by spaces
WordStrings(n) ==
  IF n = 1 THEN {<<"A">>, <<"=">>, <<"%">>}
  ELSE {s \o <<" ">> \o w : s \in WordStrings(n - 1), w \in WordStrings(1)}

\* one-measure pattern strings of up to MaxPositions words, and a pattern
\* with a carriage return between separators
MeasureStrings ==
  UNION {WordStrings(n) : n \in 1..MaxPositions} \cup {<<"A", ";", "\r", ";", "A">>}

\* largest _repeat value
MaxRepeat == 2

\* largest measure count of a _cutStart / _cutEnd modifier
MaxCut == 2

Repeats == {Undefined} \cup {<<n>> : n \in 0..MaxRepeat}

\* [measures, beats] as parseCutModifier returns them: "m" or "m-2"
Cuts == {Undefined} \cup {<<m, b>> : m \in 0..MaxCut, b \in {0, 2}}

\* largest measure count of the section's pattern and of its _before / _after pattern
MaxPatternMeasures == 2

MaxModifierMeasures == 1

\* most lyric lines of a section
MaxLyrics == 2

LyricLines ==
  {<<"a", "_", "1">>, <<"_", "2">>, <<"a", "_", "0">>, <<"a", "_">>}

\* lyric lines given to the lyric timing validator alone: well-formed, zero,
\* bare underscore, no marker, underscore before a letter, and an inner
\* underscore before a letter with a trailing marker
TimingLines ==
  LyricLines \cup {<<"a">>, <<"_", "a">>, <<"a", "_", "b", "_", "1">>}

\* pattern strings of the section of a whole conversion: one measure, a
\* repeat shorthand, three positions, a loop, an invalid chord, a lone %
ConvertPatterns ==
  { <<"A">>, <<"A", ";", "%">>, <<"A", " ", "B", " ", "A">>,
    <<"[", "A", "]", "2">>, <<"H">>, <<"%">> }

\* section.before.sc / section.after.sc, undefined without the modifier
ModifierPatterns == {Undefined, <<<<"%">>>>, <<<<"B">>>>, <<<<"H">>>>}

ConvertTimeSignatures ==
  {[numerator |-> 4, denominator |-> 4], [numerator |-> 3, denominator |-> 4]}

\* section.time of an @time line
SectionTimes == {Undefined, <<3, 4>>}

ConvertSections ==
  [repeat : {Undefined, <<2>>}, cutStart : {Undefined, <<1, 0>>},
   cutEnd : {Undefined, <<1, 0>>},
   lyrics : { <<>>, <<<<"a", "_", "1">>>>, <<<<"_", "2">>>>,
              <<<<"a", "_", "1">>, <<"_", "2">>>>, <<<<"a", "_">>>> }]

\* longest flat measure list given to stack / resolveRepeatSymbols
MaxMeasures == 3

\* longest measure list given to optimizePattern
MaxOptimize == 6

StackMeasures == SeqsUpTo({<<A>>, <<B>>}, MaxMeasures)

ModifierMeasures == SeqsUpTo({<<C>>}, MaxModifierMeasures)

ResolveMeasures ==
  SeqsUpTo({<<>>, <<A>>, <<B>>, <<Symbol("%")>>, <<A, B>>, <<A, Symbol("%")>>,
            <<Symbol("%"), B>>, <<Symbol("%"), Symbol("%")>>,
            <<A, Symbol("%"), Symbol("%")>>}, MaxMeasures)

OptimizeMeasures ==
  SeqsUpTo({<<A>>, <<A7>>, <<Symbol("_")>>, <<A, Symbol("_")>>}, MaxOptimize)

NoSection ==
  [repeat |-> Undefined, cutStart |-> Undefined, cutEnd |-> Undefined, lyrics |-> <<>>]

NoOptimized == [repeats |-> 0, pattern |-> <<>>]

BeatIdle ==
  /\ measure = <<>>
  /\ timeSignature = [numerator |-> 4, denominator |-> 4]

BudgetIdle ==
  /\ patternMeasures = 0
  /\ beforeCount = 0
  /\ afterCount = 0
  /\ finalMeasures = 0

StackIdle ==
  /\ beforeMeasures = <<>>
  /\ afterMeasures = <<>>
  /\ stacked = <<>>

BuilderIdle ==
  /\ resolved = <<>>
  /\ optimized = NoOptimized
  /\ reoptimized = NoOptimized

SongIdle ==
  /\ sections = <<>>
  /\ patterns = <<>>
  /\ sectionMeasures = <<>>

ChordIdle ==
  /\ chordInput = <<>>
  /\ parsedChord = [error |-> "", chord |-> Chord(<<>>, <<>>)]

ConvertIdle ==
  /\ beforePattern = Undefined
  /\ afterPattern = Undefined
  /\ beforeResult = NoResult
  /\ afterResult = NoResult
  /\ sectionTime = Undefined
  /\ prompter = <<>>

-----------------------------------------------------------------------------
(* Pattern compilation: transform, then count, then expand *)

InitTransform ==
  /\ pc = "transform"
  /\ err = ""
  /\ pattern \in PatternStrings
  /\ result = NoResult
  /\ counted = 0
  /\ expanded = <<>>
  /\ BeatIdle /\ BudgetIdle /\ StackIdle /\ BuilderIdle
  /\ ConvertIdle
  /\ section = NoSection
  /\ measures = <<>>
  /\ ChordIdle /\ SongIdle

\* convert, Phase 2: patternTransformer.transform(pattern.sc)
Transform ==
  /\ pc = "transform"
  /\ result' = PatternTransformerTransform(pattern)
  /\ err' = result'.error
  /\ pc' = IF result'.error # "" THEN "failed" ELSE "count"
  /\ UNCHANGED <<pattern, counted, expanded, section, measures>>
  /\ UNCHANGED <<beatVars, budgetVars, stackVars, builderVars, convertVars>>
  /\ UNCHANGED <<chordVars, songVars>>

\* convert, Phase 2: measureCounter.count(result.json)
Count ==
  /\ pc = "count"
  /\ counted' = MeasureCounterCount(result.json)
  /\ pc' = "expand"
  /\ UNCHANGED <<err, pattern, result, expanded, section, measures>>
  /\ UNCHANGED <<beatVars, budgetVars, stackVars, builderVars, convertVars>>
  /\ UNCHANGED <<chordVars, songVars>>

\* convert, Phase 4: patternExpander.expand(pattern.json), skipped for a null json
Expand ==
  /\ pc = "expand"
  /\ result.json # <<>>
  /\ expanded' = PatternExpanderExpand(result.json)
  /\ pc' = "done"
  /\ UNCHANGED <<err, pattern, result, counted, section, measures>>
  /\ UNCHANGED <<beatVars, budgetVars, stackVars, builderVars, convertVars>>
  /\ UNCHANGED <<chordVars, songVars>>

NextTransform == Transform \/ Count \/ Expand

SpecTransform == InitTransform /\ [][NextTransform]_vars

-----------------------------------------------------------------------------
(* Beat division *)

InitBeat ==
  /\ pc = "validate"
  /\ err = ""
  /\ measure \in BeatMeasures
  /\ timeSignature \in TimeSignatures
  /\ TransformIdle /\ BudgetIdle /\ StackIdle /\ BuilderIdle
  /\ ConvertIdle
  /\ section = NoSection
  /\ measures = <<>>
  /\ ChordIdle /\ SongIdle

\* convert, Phase 3: timeSignatureValidator.validate(element, timeSignature)
ValidateTimeSignature ==
  /\ pc = "validate"
  /\ err' = TimeSignatureValidatorValidate(measure, timeSignature)
  /\ pc' = IF err' # "" THEN "failed" ELSE "done"
  /\ UNCHANGED <<section, measures>>
  /\ UNCHANGED <<transformVars, beatVars, budgetVars, stackVars, builderVars, convertVars>>
  /\ UNCHANGED <<chordVars, songVars>>

NextBeat == ValidateTimeSignature

SpecBeat == InitBeat /\ [][NextBeat]_vars

-----------------------------------------------------------------------------
(* Section measure budget and lyric timing *)

InitBudget ==
  /\ pc = "budget"
  /\ err = ""
  /\ section \in [repeat : Repeats, cutStart : Cuts, cutEnd : Cuts,
                  lyrics : SeqsUpTo(LyricLines, MaxLyrics)]
  /\ patternMeasures \in 0..MaxPatternMeasures
  /\ beforeCount \in 0..MaxModifierMeasures
  /\ afterCount \in 0..MaxModifierMeasures
  /\ finalMeasures = 0
  /\ TransformIdle /\ BeatIdle /\ StackIdle /\ BuilderIdle
  /\ ConvertIdle
  /\ measures = <<>>
  /\ ChordIdle /\ SongIdle

\* convert, Step 3.2: sectionMeasures.set(i, finalMeasures)
CalculateSectionMeasures ==
  /\ pc = "budget"
  /\ finalMeasures' = sectionMeasuresOf(section, patternMeasures, beforeCount, afterCount)
  /\ pc' = "lyrics"
  /\ UNCHANGED <<err, section, measures, patternMeasures, beforeCount, afterCount>>
  /\ UNCHANGED <<transformVars, beatVars, stackVars, builderVars, convertVars>>
  /\ UNCHANGED <<chordVars, songVars>>

\* convert, Step 3.3: lyricTimingValidator.validate unless the section has no lyrics
ValidateLyricTiming ==
  /\ pc = "lyrics"
  /\ err' = IF Len(section.lyrics) = 0 THEN ""
            ELSE LyricTimingValidatorValidate(section.lyrics, finalMeasures)
  /\ pc' = IF err' # "" THEN "failed" ELSE "done"
  /\ UNCHANGED <<section, measures>>
  /\ UNCHANGED <<transformVars, beatVars, budgetVars, stackVars, builderVars, convertVars>>
  /\ UNCHANGED <<chordVars, songVars>>

NextBudget == CalculateSectionMeasures \/ ValidateLyricTiming

SpecBudget == InitBudget /\ [][NextBudget]_vars

-----------------------------------------------------------------------------
(* Stacking *)

InitStack ==
  /\ pc = "stack"
  /\ err = ""
  /\ section \in [repeat : Repeats, cutStart : Cuts, cutEnd : Cuts, lyrics : {<<>>}]
  /\ measures \in StackMeasures
  /\ beforeMeasures \in ModifierMeasures
  /\ afterMeasures \in ModifierMeasures
  /\ stacked = <<>>
  /\ TransformIdle /\ BeatIdle /\ BudgetIdle /\ BuilderIdle
  /\ ConvertIdle
  /\ ChordIdle /\ SongIdle

\* convert, Phase 4: measureStacker.stack(measures, section, beforeMeasures, afterMeasures)
Stack ==
  /\ pc = "stack"
  /\ stacked' = MeasureStackerStack(measures, section, beforeMeasures, afterMeasures)
  /\ pc' = "done"
  /\ UNCHANGED <<err, section, measures, beforeMeasures, afterMeasures>>
  /\ UNCHANGED <<transformVars, beatVars, budgetVars, builderVars, convertVars>>
  /\ UNCHANGED <<chordVars, songVars>>

NextStack == Stack

SpecStack == InitStack /\ [][NextStack]_vars

-----------------------------------------------------------------------------
(* Repeat symbol resolution *)

InitResolve ==
  /\ pc = "resolve"
  /\ err = ""
  /\ measures \in ResolveMeasures
  /\ section = NoSection
  /\ TransformIdle /\ BeatIdle /\ BudgetIdle /\ StackIdle /\ BuilderIdle
  /\ ConvertIdle
  /\ ChordIdle /\ SongIdle

\* convert, Phase 4: promptItemBuilder.resolveRepeatSymbols(measures)
ResolveRepeatSymbols ==
  /\ pc = "resolve"
  /\ LET r == resolveRepeatSymbols(measures)
     IN /\ err' = r.error
        /\ resolved' = r.resolved
        /\ pc' = IF r.error # "" THEN "failed" ELSE "done"
  /\ UNCHANGED <<section, measures, optimized, reoptimized>>
  /\ UNCHANGED <<transformVars, beatVars, budgetVars, stackVars, convertVars>>
  /\ UNCHANGED <<chordVars, songVars>>

NextResolve == ResolveRepeatSymbols

SpecResolve == InitResolve /\ [][NextResolve]_vars

-----------------------------------------------------------------------------
(* Pattern optimization *)

InitOptimize ==
  /\ pc = "optimize"
  /\ err = ""
  /\ measures \in OptimizeMeasures
  /\ section = NoSection
  /\ TransformIdle /\ BeatIdle /\ BudgetIdle /\ StackIdle /\ BuilderIdle
  /\ ConvertIdle
  /\ ChordIdle /\ SongIdle

\* buildContentItem: this.optimizePattern(measures)
OptimizePattern ==
  /\ pc = "optimize"
  /\ optimized' = optimizePattern(measures)
  /\ pc' = "optimized"
  /\ UNCHANGED <<err, section, measures, resolved, reoptimized>>
  /\ UNCHANGED <<transformVars, beatVars, budgetVars, stackVars, convertVars>>
  /\ UNCHANGED <<chordVars, songVars>>

\* optimizePattern applied to the pattern it returned
OptimizeAgain ==
  /\ pc = "optimized"
  /\ reoptimized' = optimizePattern(optimized.pattern)
  /\ pc' = "done"
  /\ UNCHANGED <<err, section, measures, resolved, optimized>>
  /\ UNCHANGED <<transformVars, beatVars, budgetVars, stackVars, convertVars>>
  /\ UNCHANGED <<chordVars, songVars>>

NextOptimize == OptimizePattern \/ OptimizeAgain

SpecOptimize == InitOptimize /\ [][NextOptimize]_vars

-----------------------------------------------------------------------------
(* Lyric timing alone *)

InitLyrics ==
  /\ pc = "lyrics"
  /\ err = ""
  /\ section \in [repeat : {Undefined}, cutStart : {Undefined}, cutEnd : {Undefined},
                  lyrics : SeqsUpTo(TimingLines, MaxLyrics)]
  /\ finalMeasures \in 0..MaxMeasures
  /\ patternMeasures = 0
  /\ beforeCount = 0
  /\ afterCount = 0
  /\ TransformIdle /\ BeatIdle /\ StackIdle /\ BuilderIdle
  /\ ConvertIdle
  /\ measures = <<>>
  /\ ChordIdle /\ SongIdle

NextLyrics == ValidateLyricTiming

SpecLyrics == InitLyrics /\ [][NextLyrics]_vars

-----------------------------------------------------------------------------
(* A whole conversion of a song with one section *)

\* most sections of a song
MaxSections == 2

\* sections of a song: a pattern that converts, one that does not compile,
\* one that breaks the beat division, one that is a lone %; with or without
\* a _before pattern that does not compile; lyrics that fit or do not
SongSections ==
  [sc : {<<"A">>, <<"H">>, <<"A", " ", "B", " ", "A">>, <<"%">>},
   before : {Undefined, <<<<"H">>>>},
   lyrics : {<<>>, <<<<"a", "_", "1">>>>, <<<<"a", "_", "2">>>>},
   repeat : {Undefined}, cutStart : {Undefined}, cutEnd : {Undefined}]

\* compilePattern on every pattern string a conversion can be given,
\* evaluated once
compiled ==
  [sc \in ConvertPatterns \cup {m[1] : m \in ModifierPatterns \ {Undefined}} |->
     compilePattern(sc)]

InitConvert ==
  /\ pc = "cvPattern"
  /\ err = ""
  /\ pattern \in ConvertPatterns
  /\ beforePattern \in ModifierPatterns
  /\ afterPattern \in ModifierPatterns
  /\ timeSignature \in ConvertTimeSignatures
  /\ sectionTime \in SectionTimes
  /\ section \in ConvertSections
  /\ result = NoResult
  /\ beforeResult = NoResult
  /\ afterResult = NoResult
  /\ counted = 0
  /\ expanded = <<>>
  /\ measure = <<>>
  /\ measures = <<>>
  /\ prompter = <<>>
  /\ BudgetIdle /\ StackIdle /\ BuilderIdle
  /\ ChordIdle /\ SongIdle

\* Phase 2: transform and count the section's pattern (first loop), then
\* section.before and section.after (second loop); the first error is thrown
ConvertTransformPattern ==
  /\ pc = "cvPattern"
  /\ \E table \in {compiled} :
        /\ result' = table[pattern]
        /\ beforeResult' = IF result'.error = "" /\ beforePattern # Undefined
                           THEN table[beforePattern[1]] ELSE NoResult
        /\ afterResult' = IF /\ result'.error = "" /\ beforeResult'.error = ""
                             /\ afterPattern # Undefined
                          THEN table[afterPattern[1]] ELSE NoResult
  /\ counted' = result'.measures
  /\ err' = IF result'.error # "" THEN result'.error
            ELSE IF beforeResult'.error # "" THEN beforeResult'.error
            ELSE afterResult'.error
  /\ pc' = IF err' # "" THEN "failed" ELSE "cvTime"
  /\ UNCHANGED <<pattern, expanded, section, measures>>
  /\ UNCHANGED <<beforePattern, afterPattern, sectionTime, prompter>>
  /\ UNCHANGED <<beatVars, budgetVars, stackVars, builderVars>>
  /\ UNCHANGED <<chordVars, songVars>>

\* Phase 3: every measure of the pattern, then of before, then of after,
\* against the song's time signature
ConvertValidateTimeSignatures ==
  /\ pc = "cvTime"
  /\ LET e1 == validateAll(measuresOf(result.json), 1, timeSignature)
         e2 == validateAll(measuresOf(beforeResult.json), 1, timeSignature)
         e3 == validateAll(measuresOf(afterResult.json), 1, timeSignature)
     IN err' = IF e1 # "" THEN e1 ELSE IF e2 # "" THEN e2 ELSE e3
  /\ pc' = IF err' # "" THEN "failed" ELSE "cvBudget"
  /\ UNCHANGED <<section, measures>>
  /\ UNCHANGED <<transformVars, beatVars, budgetVars, stackVars, builderVars, convertVars>>
  /\ UNCHANGED <<chordVars, songVars>>

\* Step 3.2: the section's measure count
ConvertSectionMeasures ==
  /\ pc = "cvBudget"
  /\ patternMeasures' = counted
  /\ beforeCount' = beforeResult.measures
  /\ afterCount' = afterResult.measures
  /\ finalMeasures' = sectionMeasuresOf(section, counted, beforeResult.measures,
                                        afterResult.measures)
  /\ pc' = "cvLyrics"
  /\ UNCHANGED <<err, section, measures>>
  /\ UNCHANGED <<transformVars, beatVars, stackVars, builderVars, convertVars>>
  /\ UNCHANGED <<chordVars, songVars>>

\* a lyric timing step that validates a section without lyrics too
ConvertLyricTiming_NoSkip ==
  /\ pc = "cvLyrics"
  /\ err' = LyricTimingValidatorValidate(section.lyrics, finalMeasures)
  /\ pc' = IF err' # "" THEN "failed" ELSE "cvPrompter"
  /\ UNCHANGED <<section, measures>>
  /\ UNCHANGED <<transformVars, beatVars, budgetVars, stackVars, builderVars, convertVars>>
  /\ UNCHANGED <<chordVars, songVars>>

\* Step 3.3: lyric timing, skipped for a section without lyrics
ConvertLyricTiming ==
  /\ pc = "cvLyrics"
  /\ err' = IF Len(section.lyrics) = 0 THEN ""
            ELSE LyricTimingValidatorValidate(section.lyrics, finalMeasures)
  /\ pc' = IF err' # "" THEN "failed" ELSE "cvPrompter"
  /\ UNCHANGED <<section, measures>>
  /\ UNCHANGED <<transformVars, beatVars, budgetVars, stackVars, builderVars, convertVars>>
  /\ UNCHANGED <<chordVars, songVars>>

\* a prompter step that records a resolution error and goes on
ConvertBuildPrompter_GoOn ==
  /\ pc = "cvPrompter"
  /\ expanded' = PatternExpanderExpand(result.json)
  /\ \E r \in {resolveRepeatSymbols(expanded')} :
        /\ err' = r.error
        /\ resolved' = r.resolved
  /\ pc' = "cvFinal"
  /\ UNCHANGED <<pattern, result, counted, section, measures, optimized, reoptimized>>
  /\ UNCHANGED <<beatVars, budgetVars, stackVars, convertVars>>
  /\ UNCHANGED <<chordVars, songVars>>

\* Phase 4 for the section: expand, resolve, stack, pair, slice and build
ConvertBuildPrompter ==
  /\ pc = "cvPrompter"
  /\ IF result.json = <<>>
     THEN /\ pc' = "cvFinal"
          /\ UNCHANGED <<err, expanded, resolved, stackVars, prompter>>
     ELSE
       /\ expanded' = PatternExpanderExpand(result.json)
       /\ \E r \in {resolveRepeatSymbols(expanded')} :
            IF r.error # ""
            THEN /\ err' = r.error
                 /\ pc' = "failed"
                 /\ resolved' = <<>>
                 /\ UNCHANGED <<stackVars, prompter>>
            ELSE
              /\ err' = ""
              /\ pc' = "cvFinal"
              /\ resolved' = r.resolved
              /\ beforeMeasures' = IF beforeResult.json # <<>>
                                   THEN PatternExpanderExpand(beforeResult.json) ELSE <<>>
              /\ afterMeasures' = IF afterResult.json # <<>>
                                  THEN PatternExpanderExpand(afterResult.json) ELSE <<>>
              /\ stacked' = MeasureStackerStack(resolved', section,
                                                beforeMeasures', afterMeasures')
              /\ IF Len(section.lyrics) = 0
                 THEN prompter' = prompter
                 ELSE \E lyricPairs \in {LyricPairerPair(section.lyrics, Len(stacked'))} :
                         prompter' = buildItems(stacked', lyricPairs, 1, prompter)
  /\ UNCHANGED <<pattern, result, counted, section, measures, optimized, reoptimized>>
  /\ UNCHANGED <<beatVars, budgetVars>>
  /\ UNCHANGED <<beforePattern, afterPattern, beforeResult, afterResult, sectionTime>>
  /\ UNCHANGED <<chordVars, songVars>>

\* the final LivenotesJSON is built and returned
ConvertReturn ==
  /\ pc = "cvFinal"
  /\ pc' = "returned"
  /\ UNCHANGED <<err, section, measures>>
  /\ UNCHANGED <<transformVars, beatVars, budgetVars, stackVars, builderVars, convertVars>>
  /\ UNCHANGED <<chordVars, songVars>>

NextConvert ==
  \/ ConvertTransformPattern
  \/ ConvertValidateTimeSignatures
  \/ ConvertSectionMeasures
  \/ ConvertLyricTiming
  \/ ConvertBuildPrompter
  \/ ConvertReturn

\* convert is one synchronous call: it runs until it returns or throws
SpecConvert == InitConvert /\ [][NextConvert]_vars /\ WF_vars(NextConvert)

-----------------------------------------------------------------------------
(* Every operation, on every input *)

-----------------------------------------------------------------------------
(* ChordParser alone *)

InitChord ==
  /\ pc = "parse"
  /\ err = ""
  /\ chordInput \in ChordStrings
  /\ parsedChord = [error |-> "", chord |-> Chord(<<>>, <<>>)]
  /\ TransformIdle /\ BeatIdle /\ BudgetIdle /\ StackIdle /\ BuilderIdle
  /\ ConvertIdle /\ SongIdle
  /\ section = NoSection
  /\ measures = <<>>

\* chordParser.parse(chord)
ParseChord ==
  /\ pc = "parse"
  /\ parsedChord' = ChordParserParse(chordInput)
  /\ err' = parsedChord'.error
  /\ pc' = IF parsedChord'.error # "" THEN "failed" ELSE "done"
  /\ UNCHANGED <<chordInput, section, measures>>
  /\ UNCHANGED <<transformVars, beatVars, budgetVars, stackVars, builderVars, convertVars>>
  /\ UNCHANGED songVars

NextChord == ParseChord

SpecChord == InitChord /\ [][NextChord]_vars

-----------------------------------------------------------------------------
(* Compiled measures under the time signature *)

InitCompiled ==
  /\ pc = "compile"
  /\ err = ""
  /\ pattern \in MeasureStrings
  /\ result = NoResult
  /\ counted = 0
  /\ expanded = <<>>
  /\ measure = <<>>
  /\ timeSignature \in TimeSignatures
  /\ BudgetIdle /\ StackIdle /\ BuilderIdle /\ ConvertIdle /\ ChordIdle
  /\ SongIdle
  /\ section = NoSection
  /\ measures = <<>>

\* convert, Phase 2: patternTransformer.transform(pattern.sc)
CompilePattern ==
  /\ pc = "compile"
  /\ result' = PatternTransformerTransform(pattern)
  /\ err' = result'.error
  /\ pc' = IF result'.error # "" THEN "failed" ELSE "validate"
  /\ UNCHANGED <<pattern, counted, expanded, section, measures>>
  /\ UNCHANGED <<beatVars, budgetVars, stackVars, builderVars, convertVars, chordVars, songVars>>

\* convert, Phase 3: one iteration of the loop over the elements of the
\* pattern json, on an element that is an array
ValidateCompiledMeasure ==
  /\ pc = "validate"
  /\ \E i \in 1..Len(result.json) :
        /\ result.json[i].kind = "measure"
        /\ measure' = result.json[i].positions
  /\ err' = TimeSignatureValidatorValidate(measure', timeSignature)
  /\ pc' = IF err' # "" THEN "invalid" ELSE "valid"
  /\ UNCHANGED <<timeSignature, section, measures>>
  /\ UNCHANGED <<transformVars, budgetVars, stackVars, builderVars, convertVars, chordVars, songVars>>

NextCompiled == CompilePattern \/ ValidateCompiledMeasure

SpecCompiled == InitCompiled /\ [][NextCompiled]_vars

-----------------------------------------------------------------------------
(* A whole conversion of a song with several sections *)

InitSong ==
  /\ pc = "sgPatterns"
  /\ err = ""
  /\ sections \in UNION {[1..n -> SongSections] : n \in 1..MaxSections}
  /\ patterns = <<>>
  /\ sectionMeasures = <<>>
  /\ TransformIdle /\ BeatIdle /\ BudgetIdle /\ StackIdle /\ BuilderIdle
  /\ ConvertIdle /\ ChordIdle
  /\ section = NoSection
  /\ measures = <<>>

\* Phase 2: transform and count every section's pattern, then every
\* section's _before pattern
SongTransformPatterns ==
  /\ pc = "sgPatterns"
  /\ \E table \in {compiled} :
        patterns' =
          [i \in 1..Len(sections) |->
             [pattern |-> table[sections[i].sc],
              before |-> IF sections[i].before # Undefined
                         THEN table[sections[i].before[1]] ELSE NoResult]]
  /\ err' = firstError([i \in 1..Len(sections) |-> patterns'[i].pattern.error]
                         \o [i \in 1..Len(sections) |-> patterns'[i].before.error])
  /\ pc' = IF err' # "" THEN "failed" ELSE "sgTime"
  /\ UNCHANGED <<sections, sectionMeasures, section, measures, prompter>>
  /\ UNCHANGED <<beforePattern, afterPattern, beforeResult, afterResult, sectionTime>>
  /\ UNCHANGED <<transformVars, beatVars, budgetVars, stackVars, builderVars, chordVars>>

\* Phase 3: the measures of every pattern, then of every _before pattern,
\* against the song's time signature
SongValidateTimeSignatures ==
  /\ pc = "sgTime"
  /\ err' = firstError(
               [i \in 1..Len(sections) |->
                  validateAll(measuresOf(patterns[i].pattern.json), 1, timeSignature)]
               \o [i \in 1..Len(sections) |->
                     validateAll(measuresOf(patterns[i].before.json), 1, timeSignature)])
  /\ pc' = IF err' # "" THEN "failed" ELSE "sgLyrics"
  /\ UNCHANGED <<section, measures>>
  /\ UNCHANGED <<transformVars, beatVars, budgetVars, stackVars, builderVars,
                 convertVars, chordVars, songVars>>

\* Step 3.2 and Step 3.3: the measure count of every section, then the
\* lyric timing of every section that has lyrics
SongValidateLyricTiming ==
  /\ pc = "sgLyrics"
  /\ sectionMeasures' =
        [i \in 1..Len(sections) |->
           sectionMeasuresOf(sections[i], patterns[i].pattern.measures,
                             patterns[i].before.measures, 0)]
  /\ err' = firstError(
               [i \in 1..Len(sections) |->
                  IF Len(sections[i].lyrics) = 0 THEN ""
                  ELSE LyricTimingValidatorValidate(sections[i].lyrics,
                                                    sectionMeasures'[i])])
  /\ pc' = IF err' # "" THEN "failed" ELSE "sgPrompter"
  /\ UNCHANGED <<sections, patterns, section, measures>>
  /\ UNCHANGED <<transformVars, beatVars, budgetVars, stackVars, builderVars,
                 convertVars, chordVars>>

\* Phase 4: the prompter items of every section in turn, and the return
SongBuildPrompter ==
  /\ pc = "sgPrompter"
  /\ \E r \in {songPrompterFrom(sections, patterns, 1, <<>>)} :
        /\ err' = r.error
        /\ prompter' = r.prompter
        /\ pc' = IF r.error # "" THEN "failed" ELSE "returned"
  /\ UNCHANGED <<section, measures>>
  /\ UNCHANGED <<beforePattern, afterPattern, beforeResult, afterResult, sectionTime>>
  /\ UNCHANGED <<transformVars, beatVars, budgetVars, stackVars, builderVars,
                 chordVars, songVars>>

NextSong ==
  \/ SongTransformPatterns
  \/ SongValidateTimeSignatures
  \/ SongValidateLyricTiming
  \/ SongBuildPrompter

SpecSong == InitSong /\ [][NextSong]_vars

-----------------------------------------------------------------------------
(* Every operation *)

Init ==
  \/ InitChord \/ InitCompiled \/ InitSong \/ InitTransform \/ InitBeat \/ InitBudget \/ InitLyrics
  \/ InitStack \/ InitResolve \/ InitOptimize \/ InitConvert

Next ==
  \/ ParseChord
  \/ NextSong
  \/ NextCompiled
  \/ Transform \/ Count \/ Expand
  \/ ValidateTimeSignature
  \/ CalculateSectionMeasures \/ ValidateLyricTiming
  \/ Stack
  \/ ResolveRepeatSymbols
  \/ OptimizePattern \/ OptimizeAgain
  \/ NextConvert

Spec == Init /\ [][Next]_vars

-----------------------------------------------------------------------------
(* Properties *)

IsRemover(position) == position = Symbol("=")

IsRepeat(position) == position = Symbol("%")

RECURSIVE Copies(_, _)
\* n consecutive copies of a list
Copies(list, n) == IF n = 0 THEN <<>> ELSE list \o Copies(list, n - 1)

RECURSIVE IsPowerOfTwo(_)
IsPowerOfTwo(n) == n = 1 \/ (n > 1 /\ n % 2 = 0 /\ IsPowerOfTwo(n \div 2))

BracketsDiffer(p) == matchCount(p, "[") # matchCount(p, "]")

\* C1: for every pattern string that transform accepts with a non-null
\* result, MeasureCounter.count of the compiled pattern equals the length of
\* PatternExpander.expand of it.
C1_CountEqualsExpandedLength ==
  pc = "done" => counted = Len(expanded)

\* the repeat of the claim: 1 when the modifier is absent
RepeatOf(sec) == IF sec.repeat = Undefined THEN 1 ELSE sec.repeat[1]

\* the final measure count of the claim's formula
BudgetFormula ==
  patternMeasures * RepeatOf(section)
    - cutTotal(section.cutStart) - cutTotal(section.cutEnd)
    + beforeCount + afterCount

\* a lyric line ending in _<digits> with a value above 0
WellFormedLine(lyric) ==
  timingMatch(lyric) # <<>> /\ parseInt(timingMatch(lyric)) > 0

RECURSIVE TimingSum(_)
TimingSum(lyrics) ==
  IF lyrics = <<>> THEN 0
  ELSE parseInt(timingMatch(Head(lyrics))) + TimingSum(Tail(lyrics))

\* C2: for a section with at least one lyric line the conversion computes
\* final = patternMeasures * repeat - cutStart total - cutEnd total + before
\* + after (repeat 1 and cuts 0 when absent), and when every lyric line is
\* well-formed the lyric check passes iff the timing values sum to final and
\* fails with E3.4.4 otherwise.
C2_SectionBudget ==
  (pc # "budget" /\ Len(section.lyrics) >= 1) =>
     /\ finalMeasures = BudgetFormula
     /\ (pc # "lyrics" /\ \A i \in 1..Len(section.lyrics) : WellFormedLine(section.lyrics[i])) =>
           IF TimingSum(section.lyrics) = BudgetFormula
           THEN pc = "done" /\ err = ""
           ELSE pc = "failed" /\ err = "E3.4.4"

\* C3: a measure of P >= 1 positions, none a remover, is accepted under
\* numerator N iff N mod P = 0 and fails with E3.1.1 otherwise; silence and
\* repeat symbols count as positions.
C3_BeatDivision ==
  (pc # "validate" /\ Len(measure) >= 1
     /\ \A i \in 1..Len(measure) : ~IsRemover(measure[i])) =>
        IF timeSignature.numerator % Len(measure) = 0
        THEN pc = "done" /\ err = ""
        ELSE pc = "failed" /\ err = "E3.1.1"

C3_Witness ==
  /\ pc = "failed" /\ err = "E3.1.1"
  /\ timeSignature.numerator = 4
  /\ measure = <<A, Symbol("_"), Symbol("%")>>

RemoversOf(m) == Cardinality({i \in 1..Len(m) : IsRemover(m[i])})

C5_StackOrder ==
  pc = "done" =>
     LET whole == Copies(measures, RepeatOf(section))
         cs == cutTotal(section.cutStart)
         ce == cutTotal(section.cutEnd)
         nb == Len(beforeMeasures)
         na == Len(afterMeasures)
         middle == SubSeq(stacked, nb + 1, Len(stacked) - na)
     IN /\ Len(stacked) >= nb + na
        /\ SubSeq(stacked, 1, nb) = beforeMeasures
        /\ SubSeq(stacked, Len(stacked) - na + 1, Len(stacked)) = afterMeasures
        /\ RepeatOf(section) >= 1 =>
             /\ \E i \in 0..Len(whole) :
                  /\ i + Len(middle) <= Len(whole)
                  /\ middle = SubSeq(whole, i + 1, i + Len(middle))
             /\ (cs + ce <= Len(whole)) =>
                  middle = SubSeq(whole, cs + 1, Len(whole) - ce)

C5_Witness ==
  /\ pc = "done"
  /\ section.repeat = <<2>>
  /\ section.cutStart = <<1, 0>>
  /\ section.cutEnd = <<0, 2>>
  /\ measures = <<<<A>>, <<B>>>>
  /\ beforeMeasures = <<<<C>>>>
  /\ afterMeasures = <<<<C>>>>
  /\ stacked = <<<<C>>, <<B>>, <<A>>, <<C>>>>

RepeatWithNoPrior(ms) ==
  \E i \in 1..Len(ms) : \E k \in 1..Len(ms[i]) :
     /\ IsRepeat(ms[i][k])
     /\ \A h \in 1..(k - 1) : IsRepeat(ms[i][h])
     /\ \A j \in 1..(i - 1) : ms[j] = <<>>

C8_OptimizeDecomposition ==
  (pc # "optimize" /\ measures # <<>>) =>
     LET m == optimized.repeats
         R == optimized.pattern
         L == measures
     IN /\ IsPowerOfTwo(m)
        /\ Len(R) * m = Len(L)
        /\ L = Copies(R, m)
        /\ \A m2 \in (m + 1)..Len(L) :
             (IsPowerOfTwo(m2) /\ Len(L) % m2 = 0) =>
                L # Copies(SubSeq(L, 1, Len(L) \div m2), m2)

C8_Witness ==
  /\ pc = "optimized"
  /\ measures = <<<<A>>, <<A7>>, <<A>>, <<A7>>>>
  /\ optimized = [repeats |-> 2, pattern |-> <<<<A>>, <<A7>>>>]

Irreducible(L) ==
  \/ Len(L) <= 1
  \/ Len(L) % 2 = 1
  \/ SubSeq(L, 1, Len(L) \div 2) # SubSeq(L, Len(L) \div 2 + 1, Len(L))

\* C9: an irreducible list (length <= 1, odd length, or unequal halves) is
\* returned unchanged with multiplier 1, and optimizing the list a call
\* returned gives multiplier 1 and that same list.
C9_OptimizeIdempotent ==
  /\ (pc # "optimize" /\ Irreducible(measures)) =>
        optimized = [repeats |-> 1, pattern |-> measures]
  /\ pc = "done" => reoptimized = [repeats |-> 1, pattern |-> optimized.pattern]

C9_Witness ==
  /\ pc = "done"
  /\ Len(measures) = 4
  /\ optimized.repeats = 4
  /\ reoptimized = [repeats |-> 1, pattern |-> optimized.pattern]

\* C10: a non-blank pattern string whose '[' and ']' counts differ fails
\* with E2.1.3, whatever other defect it has.
C10_MismatchedBrackets ==
  (pc # "transform" /\ trim(pattern) # <<>> /\ BracketsDiffer(pattern)) =>
     (pc = "failed" /\ err = "E2.1.3")

C10_Witness ==
  /\ pc = "failed" /\ err = "E2.1.3"
  /\ pattern = <<"H", " ", "=", "[">>

\* the line ends in an underscore followed by one or more digits
HasTrailingTiming(lyric) ==
  \E k \in 1..(Len(lyric) - 1) :
     lyric[k] = "_" /\ \A h \in (k + 1)..Len(lyric) : lyric[h] \in Digits

\* an underscore followed by a non-digit, or a bare underscore at the end
HasBadUnderscore(lyric) ==
  \E k \in 1..Len(lyric) :
     lyric[k] = "_" /\ (k = Len(lyric) \/ lyric[k + 1] \notin Digits)

\* the per-line error of the claim, "" for a well-formed line
LineError(lyric) ==
  IF ~HasTrailingTiming(lyric)
  THEN (IF HasBadUnderscore(lyric) THEN "E3.4.2" ELSE "E3.4.1")
  ELSE IF parseInt(timingMatch(lyric)) = 0 THEN "E3.4.3" ELSE ""

Offenders(lyrics) == {i \in 1..Len(lyrics) : LineError(lyrics[i]) # ""}

FirstOffender(lyrics) ==
  CHOOSE i \in Offenders(lyrics) : \A j \in Offenders(lyrics) : i <= j

\* C12: the lyric timing validator fails at the first offending line, with
\* E3.4.2 for a line without a trailing _<digits> that has an underscore
\* before a non-digit or at its end, E3.4.1 for any other line without a
\* trailing _<digits>, and E3.4.3 for a trailing value of 0; E3.4.4 is
\* reported only when every line is well-formed.
C12_FirstOffendingLine ==
  (pc # "lyrics" /\ Len(section.lyrics) >= 1) =>
     IF Offenders(section.lyrics) # {}
     THEN /\ pc = "failed"
          /\ err = LineError(section.lyrics[FirstOffender(section.lyrics)])
     ELSE err \in {"", "E3.4.4"}

C12_Witness ==
  /\ pc = "failed" /\ err = "E3.4.2"
  /\ section.lyrics = <<<<"a", "_", "b", "_", "1">>, <<"_", "a">>>>
  /\ finalMeasures = 3

Terminated == pc \in {"returned", "failed"}

\* C11: a conversion ends, either returned with no error or failed with one
\* error; every step of the pipeline starts with no error raised, and no
\* step follows the failure or the return.
C11_SingleOutcome ==
  /\ <>Terminated
  /\ [](pc = "failed" => err # "")
  /\ [](pc = "returned" => err = "")
  /\ [][err = "" /\ ~Terminated]_vars

C11_Witness ==
  /\ pc = "failed" /\ err = "E4.1.1"
  /\ pattern = <<"%">>
  /\ section.lyrics = <<<<"a", "_", "1">>>>
  /\ prompter = <<>>

LyricTimingErrors == {"E3.4.1", "E3.4.2", "E3.4.3", "E3.4.4"}

\* C13: a conversion whose section has no lyric line never raises a lyric
\* timing error, whatever the pattern's measure count and the modifiers.
C13_InstrumentalExempt ==
  Len(section.lyrics) = 0 => err \notin LyricTimingErrors

C13_Witness ==
  /\ pc = "returned"
  /\ Len(section.lyrics) = 0
  /\ section.repeat = <<2>>
  /\ finalMeasures = 4
  /\ prompter = <<>>

\* the time signature in effect for the section: its own override, else the song's
EffectiveTime ==
  IF sectionTime # Undefined
  THEN [numerator |-> sectionTime[1], denominator |-> sectionTime[2]]
  ELSE timeSignature

\* every measure of the section's pattern and of its before / after pattern
\* is accepted under the time signature ts
AllMeasuresFit(ts) ==
  \A json \in {result.json, beforeResult.json, afterResult.json} :
     \A i \in 1..Len(json) :
        json[i].kind = "measure" =>
           TimeSignatureValidatorValidate(json[i].positions, ts) = ""

BeatErrors == {"E3.1.1", "E3.1.2"}

\* the time signature step is behind: the run went on, or failed later
TimeChecked ==
  \/ pc \in {"cvBudget", "cvLyrics", "cvPrompter", "cvFinal", "returned"}
  \/ (pc = "failed" /\ err \in LyricTimingErrors \cup {"E4.1.1"})

HasRepeat(ms) ==
  \E i \in 1..Len(ms) : \E k \in 1..Len(ms[i]) : ms[i][k] = Symbol("%")

\* C20: in a conversion that returns, the list sliced into the display units
\* is the resolution of the stacked list of the expanded pattern, before and
\* after measures, and no display unit holds a % position.
C20_ResolveAfterStack ==
  (pc = "returned" /\ result.json # <<>> /\ Len(section.lyrics) >= 1) =>
     LET want == resolveRepeatSymbols(
                   MeasureStackerStack(expanded, section, beforeMeasures, afterMeasures))
     IN /\ want.error = ""
        /\ stacked = want.resolved
        /\ \A k \in 1..Len(prompter) : ~HasRepeat(prompter[k].pattern)

\* depth after the first i elements: loopStart opens, loopEnd closes
RECURSIVE Depth(_, _)
Depth(json, i) ==
  IF i = 0 THEN 0
  ELSE Depth(json, i - 1)
         + (IF json[i].kind = "loopStart" THEN 1
            ELSE IF json[i].kind = "loopEnd:" THEN -1 ELSE 0)

\* every loopEnd carries a count of at least 1
PositiveCounts(json) ==
  \A i \in 1..Len(json) :
     json[i].kind = "loopEnd:" => parseInt(json[i].digits) >= 1

\* balanced, and no prefix closes more loops than it opened
WellNested(json) ==
  /\ Depth(json, Len(json)) = 0
  /\ \A i \in 1..Len(json) : Depth(json, i) >= 0

\* index of the loopEnd matching the loopStart at index i
MatchingEnd(json, i) ==
  CHOOSE e \in (i + 1)..Len(json) :
     /\ Depth(json, e) = Depth(json, i - 1)
     /\ \A k \in i..(e - 1) : Depth(json, k) > Depth(json, i - 1)

RECURSIVE TotalMeasures(_)
\* the recursively defined measure total of a well-nested list
TotalMeasures(json) ==
  IF json = <<>> THEN 0
  ELSE IF json[1].kind = "measure" THEN 1 + TotalMeasures(Tail(json))
  ELSE IF json[1].kind = "loopStart"
       THEN LET e == MatchingEnd(json, 1)
            IN parseInt(json[e].digits) * TotalMeasures(SubSeq(json, 2, e - 1))
                 + TotalMeasures(SubSeq(json, e + 1, Len(json)))
  ELSE TotalMeasures(Tail(json))

RECURSIVE FlatMeasures(_)
\* the recursively defined expansion of a well-nested list
FlatMeasures(json) ==
  IF json = <<>> THEN <<>>
  ELSE IF json[1].kind = "measure"
       THEN <<json[1].positions>> \o FlatMeasures(Tail(json))
  ELSE IF json[1].kind = "loopStart"
       THEN LET e == MatchingEnd(json, 1)
            IN Copies(FlatMeasures(SubSeq(json, 2, e - 1)), parseInt(json[e].digits))
                 \o FlatMeasures(SubSeq(json, e + 1, Len(json)))
  ELSE FlatMeasures(Tail(json))

\* C14: on a well-nested element list MeasureCounter.count returns the
\* recursive total: 1 for a measure, 0 for a line break, n times the total of
\* the interior for a loopStart ... loopEnd:n run, at any depth.
C14_CountRecursive ==
  (pc \in {"expand", "done"} /\ WellNested(result.json)
     /\ PositiveCounts(result.json)) =>
     counted = TotalMeasures(result.json)

\* C15: on a well-nested element list PatternExpander.expand returns the
\* recursive flat list: measures in order, and n copies of the expansion of
\* the interior for a loopStart ... loopEnd:n run, at any depth.
C15_ExpandRecursive ==
  (pc = "done" /\ WellNested(result.json) /\ PositiveCounts(result.json)) =>
     expanded = FlatMeasures(result.json)

\* C16: every loopEnd marker of an accepted pattern carries a repeat count
\* of at least 1.
C16_PositiveRepeatCount ==
  (pc # "transform" /\ result.error = "") =>
     \A i \in 1..Len(result.json) :
        result.json[i].kind = "loopEnd:" =>
           (result.json[i].digits # <<>> /\ parseInt(result.json[i].digits) >= 1)

\* C17: the loopStart and loopEnd markers of an accepted pattern are
\* balanced and properly nested.
C17_BalancedMarkers ==
  (pc # "transform" /\ result.error = "") => WellNested(result.json)

C17_Witness ==
  /\ pc = "done"
  /\ pattern = <<"[", "[", "A", "]", "2", "A", "]", "3">>
  /\ Len(result.json) = 6
  /\ Depth(result.json, 2) = 2

RECURSIVE SegmentsFrom(_, _, _)
\* the pieces of a pattern string between the characters ; : [ ] ; the
\* digits that follow a ] belong to the bracket
SegmentsFrom(p, i, current) ==
  IF i > Len(p) THEN <<current>>
  ELSE IF p[i] = "]"
       THEN <<current>> \o SegmentsFrom(p, digitsEnd(p, i) + 1, <<>>)
  ELSE IF p[i] \in {";", ":", "["}
       THEN <<current>> \o SegmentsFrom(p, i + 1, <<>>)
       ELSE SegmentsFrom(p, i + 1, Append(current, p[i]))

Segments(p) == SegmentsFrom(p, 1, <<>>)

IsChordToken(word) == word # <<>> /\ word[1] \in VALID_ROOTS

\* a = token with no chord token before it among the words of a segment
RemoverBeforeChord(words) ==
  \E k \in 1..Len(words) :
     words[k] = <<"=">> /\ \A h \in 1..(k - 1) : ~IsChordToken(words[h])

HasMisplacedRemover(p) ==
  \E n \in 1..Len(Segments(p)) : RemoverBeforeChord(splitWords(Segments(p)[n]))

\* a segment with no defect: a lone % _ - or chord tokens followed by removers
CleanSegment(words) ==
  \/ words \in {<<>>, <<<<"%">>>>, <<<<"_">>>>, <<<<"-">>>>}
  \/ /\ ~RemoverBeforeChord(words)
     /\ \A k \in 1..Len(words) : words[k] = <<"=">> \/ IsChordToken(words[k])

\* in a pattern without brackets, the first segment with a defect has a =
\* before any chord token, and only chord tokens before that =
RemoverIsFirstDefect(p) ==
  /\ matchCount(p, "[") = 0 /\ matchCount(p, "]") = 0
  /\ \E n \in 1..Len(Segments(p)) :
        /\ \A h \in 1..(n - 1) : CleanSegment(splitWords(Segments(p)[h]))
        /\ splitWords(Segments(p)[n]) # <<>>
        /\ splitWords(Segments(p)[n])[1] = <<"=">>

\* in every compiled measure each = position has a chord position before it
RemoversFollowChords(json) ==
  \A i \in 1..Len(json) :
     json[i].kind = "measure" =>
        \A k \in 1..Len(json[i].positions) :
           IsRemover(json[i].positions[k]) =>
              \E h \in 1..(k - 1) : json[i].positions[h].isArray

\* C18 as stated: a pattern with a = before any chord token of its measure
\* fails with E2.1.2, and in every compiled measure each = position follows
\* a chord position.
C18_RemoverAlwaysE212 ==
  pc # "transform" =>
     /\ HasMisplacedRemover(pattern) => (pc = "failed" /\ err = "E2.1.2")
     /\ result.error = "" => RemoversFollowChords(result.json)

\* C18: a pattern with a = before any chord token of its measure is never
\* accepted; it fails with E2.1.2 when that = is the first defect met (no
\* brackets, nothing but valid measures before it, and the = opens its
\* measure) and with the error of the earlier defect otherwise; in every
\* compiled measure each = position follows a chord position.
C18_RemoverMisplaced ==
  pc # "transform" =>
     /\ HasMisplacedRemover(pattern) =>
           (pc = "failed" /\ err \in {"E2.1.1", "E2.1.2", "E2.1.3", "E2.1.4"})
     /\ RemoverIsFirstDefect(pattern) => (pc = "failed" /\ err = "E2.1.2")
     /\ result.error = "" => RemoversFollowChords(result.json)

C18_Witness ==
  /\ pc = "failed" /\ err = "E2.1.2"
  /\ pattern = <<"A", " ", "=", ";", " ", "=">>

BalancedBrackets(s) == matchCount(s, "[") = matchCount(s, "]")

\* a loop opens at index i of s and its interior compiles
LoopAt(s, i) ==
  /\ charAt(s, i) = "["
  /\ findClose(s, i, 0) # -1
  /\ parsePattern(substring(s, i + 1, findClose(s, i, 0))).error = ""

\* the loop at index i has no digit after its closing bracket
Uncounted(s, i) ==
  LoopAt(s, i) /\ charAt(s, findClose(s, i, 0) + 1) \notin Digits

\* the text before index i is balanced and compiles: the loop at i is the
\* next thing the top-level scan meets
ReachedFirst(s, i) ==
  /\ BalancedBrackets(substring(s, 0, i))
  /\ parsePattern(substring(s, 0, i)).error = ""

\* end of the maximal run of digits that starts at index i
RunEnd(s, i) ==
  CHOOSE e \in i..Len(s) :
     /\ \A k \in i..(e - 1) : charAt(s, k) \in Digits
     /\ charAt(s, e) \notin Digits

\* the loop at index i, its maximal digit run as count, then the rest
ResumesAfterCount(s, i) ==
  LET closeIndex == findClose(s, i, 0)
      e == RunEnd(s, closeIndex + 1)
      before == parsePattern(substring(s, 0, i))
      interior == parsePattern(substring(s, i + 1, closeIndex))
      rest == parsePattern(substring(s, e, Len(s)))
  IN /\ result.error = rest.error
     /\ rest.error = "" =>
           result.json =
              before.json \o <<LoopStart>> \o interior.json
                \o <<[kind |-> "loopEnd:", positions |-> <<>>,
                      digits |-> substring(s, closeIndex + 1, e)]>>
                \o rest.json

CountedLoopsResume ==
  \A i \in 0..(Len(trim(pattern)) - 1) :
     (/\ BalancedBrackets(trim(pattern))
      /\ LoopAt(trim(pattern), i) /\ ~Uncounted(trim(pattern), i)
      /\ ReachedFirst(trim(pattern), i)) =>
        ResumesAfterCount(trim(pattern), i)

\* C21 as stated: a balanced pattern with a loop whose interior compiles and
\* whose ] is not followed by a digit fails with E2.1.4; when digits follow,
\* the maximal run is the repeat count and compilation resumes after it.
C21_MissingCountAlwaysE214 ==
  pc # "transform" =>
     /\ (/\ BalancedBrackets(trim(pattern))
         /\ \E i \in 0..(Len(trim(pattern)) - 1) : Uncounted(trim(pattern), i)) =>
           (pc = "failed" /\ err = "E2.1.4")
     /\ CountedLoopsResume

\* C21: a balanced pattern with a loop whose interior compiles and whose ]
\* is not followed by a digit is never accepted, and it fails with E2.1.4
\* when everything before that loop compiles; when digits follow, the
\* maximal run is the repeat count and compilation resumes after it.
C21_MissingRepeatCount ==
  pc # "transform" =>
     /\ \A i \in 0..(Len(trim(pattern)) - 1) :
           (BalancedBrackets(trim(pattern)) /\ Uncounted(trim(pattern), i)) =>
              /\ pc = "failed" /\ err # ""
              /\ ReachedFirst(trim(pattern), i) => err = "E2.1.4"
     /\ CountedLoopsResume

C21_Witness ==
  /\ pc = "failed" /\ err = "E2.1.4"
  /\ pattern = <<"A", "[", "A", "]">>

NaturalNotes == {"A", "B", "C", "D", "E", "F", "G"}

\* length of root + optional accidental + 'm' when no 'a' follows it
BaseLength(token) ==
  LET accidental == IF Len(token) >= 2 /\ token[2] \in {"#", "b"} THEN 1 ELSE 0
      minor == IF /\ Len(token) >= 2 + accidental
                  /\ token[2 + accidental] = "m"
                  /\ ~(Len(token) >= 3 + accidental /\ token[3 + accidental] = "a")
               THEN 1 ELSE 0
  IN 1 + accidental + minor

\* C22: ChordParser.parse accepts a token iff it is non-empty and starts
\* with one of A-G, and fails with E2.1.1 otherwise; an accepted token is
\* split into base = root, optional accidental, 'm' unless an 'a' follows,
\* and extension = the rest, so base followed by extension is the token.
C22_ChordParse ==
  pc # "parse" =>
     /\ (pc = "done") <=> (chordInput # <<>> /\ chordInput[1] \in NaturalNotes)
     /\ pc = "failed" => err = "E2.1.1"
     /\ pc = "done" =>
           /\ parsedChord.chord.base = SubSeq(chordInput, 1, BaseLength(chordInput))
           /\ parsedChord.chord.ext = SubSeq(chordInput, BaseLength(chordInput) + 1, Len(chordInput))
           /\ parsedChord.chord.base \o parsedChord.chord.ext = chordInput

C22_Witness ==
  /\ pc = "done"
  /\ chordInput = <<"A", "b", "m", "a">>
  /\ parsedChord.chord.base = <<"A", "b">>
  /\ parsedChord.chord.ext = <<"m", "a">>

RECURSIVE SumOfCounts(_)
\* the measure counts declared by the lyric pairs, added up
SumOfCounts(pairs) ==
  IF pairs = <<>> THEN 0 ELSE pairs[1].measures + SumOfCounts(Tail(pairs))

\* C23: for a section with lyric lines that passed lyric timing validation,
\* the list returned by stack has exactly the final measure count of the
\* budget, so the slices of the lyric lines have their declared lengths and
\* together consume the whole stacked list.
C23_StackMatchesBudget ==
  (pc \in {"cvFinal", "returned"} /\ Len(section.lyrics) >= 1 /\ result.json # <<>>) =>
     /\ Len(stacked) = finalMeasures
     /\ SumOfCounts(LyricPairerPair(section.lyrics, Len(stacked))) = Len(stacked)

\* the list without its first n elements (all of them when n >= length)
DropFront(list, n) == SubSeq(list, Min(n, Len(list)) + 1, Len(list))

\* the list without its last n elements (all of them when n >= length)
DropBack(list, n) == SubSeq(list, 1, Len(list) - Min(n, Len(list)))

\* measures + (1 if beats > 0) of a cut, 0 without the modifier
CutCount(cut) ==
  IF cut = Undefined THEN 0 ELSE cut[1] + (IF cut[2] > 0 THEN 1 ELSE 0)

\* C24: stack removes min(length, cutStart count) measures from the front
\* of the repeated list and then min(remaining length, cutEnd count) from the
\* back; a count of at least the remaining length leaves no main-pattern
\* measure and a cut of (0, 0) removes nothing.
C24_CutsClamp ==
  pc = "done" =>
     LET repeated == IF section.repeat # Undefined /\ section.repeat[1] > 1
                     THEN Copies(measures, section.repeat[1]) ELSE measures
     IN stacked =
          beforeMeasures
            \o DropBack(DropFront(repeated, CutCount(section.cutStart)),
                        CutCount(section.cutEnd))
            \o afterMeasures

RECURSIVE RepeatPositions(_, _, _, _)
\* one measure, position by position: a % takes the most recently resolved
\* position of this measure, or the whole previous measure when this measure
\* has no resolved position yet
RepeatPositions(m, j, done, previous) ==
  IF j > Len(m) THEN done
  ELSE IF IsRepeat(m[j])
       THEN IF done # <<>>
            THEN RepeatPositions(m, j + 1, Append(done, done[Len(done)]), previous)
            ELSE RepeatPositions(m, j + 1, previous, previous)
       ELSE RepeatPositions(m, j + 1, Append(done, m[j]), previous)

RECURSIVE RepeatMeasures(_, _, _, _)
RepeatMeasures(ms, i, acc, previous) ==
  IF i > Len(ms) THEN acc
  ELSE LET done == RepeatPositions(ms[i], 1, <<>>, previous)
       IN RepeatMeasures(ms, i + 1, Append(acc, done),
                         IF done # <<>> THEN done ELSE previous)

\* C25: a % in a multi-position measure is replaced by the single most
\* recently resolved position of its measure when there is one ([A, %, %]
\* gives [A, A, A]); only when no position of the measure has been resolved
\* yet is the whole content of the previous measure spliced in.
C25_PositionRepeat ==
  pc = "done" => resolved = RepeatMeasures(measures, 1, <<>>, <<>>)

HasRepeatPosition(m) == \E k \in 1..Len(m) : IsRepeat(m[k])

RECURSIVE WithoutNewLines(_)
\* the element list with every newLine element deleted
WithoutNewLines(json) ==
  IF json = <<>> THEN <<>>
  ELSE IF json[1].kind = "newLine" THEN WithoutNewLines(Tail(json))
  ELSE <<json[1]>> \o WithoutNewLines(Tail(json))

HasNewLine(json) == \E i \in 1..Len(json) : json[i].kind = "newLine"

\* C27: newLine elements never affect the runtime structure: count and
\* expand give the same results on a compiled pattern and on that pattern
\* with its newLine elements deleted, inside or outside loops, and every
\* element of the output of expand is a measure of the pattern.
C27_NewLineIgnored ==
  /\ pc \in {"expand", "done"} =>
        counted = MeasureCounterCount(WithoutNewLines(result.json))
  /\ pc = "done" =>
        /\ expanded = PatternExpanderExpand(WithoutNewLines(result.json))
        /\ \A k \in 1..Len(expanded) :
              \E i \in 1..Len(result.json) :
                 result.json[i].kind = "measure" /\ result.json[i].positions = expanded[k]

C27_Witness ==
  /\ pc = "done"
  /\ pattern = <<"[", "A", ":", "A", "]", "3">>
  /\ HasNewLine(result.json)
  /\ Len(expanded) = 6

\* C29: every measure element of a pattern produced by transform has at
\* least one position: no empty measure is emitted for consecutive, leading
\* or trailing separators or for whitespace between delimiters.
C29_NoEmptyMeasure ==
  (pc # "transform" /\ result.error = "") =>
     \A i \in 1..Len(result.json) :
        result.json[i].kind = "measure" => Len(result.json[i].positions) >= 1

\* N mod P = 0, which no N satisfies when P is 0
EvenlyDivides(positionCount, totalBeats) ==
  positionCount > 0 /\ totalBeats % positionCount = 0

\* C28: a measure produced by the transformer is accepted by the
\* time-signature validator iff N mod P = 0: its removers never change the
\* outcome, and the AllBeatsRemoved check of the evenly dividing branch
\* never fires for it.
C28_CompiledMeasureDivision ==
  pc \in {"valid", "invalid"} =>
     /\ (pc = "valid") <=> EvenlyDivides(Len(measure), timeSignature.numerator)
     /\ removerCountOf(measure) <= Max(Len(measure) - 1, 0)
     /\ EvenlyDivides(Len(measure), timeSignature.numerator) => err # "E3.1.2"

C28_Witness ==
  /\ pc = "valid"
  /\ pattern = <<"A", " ", "=", " ", "=", " ", "=">>
  /\ timeSignature.numerator = 4
  /\ removerCountOf(measure) = 3

-----------------------------------------------------------------------------
(* Errors of one conversion come in phase order *)

CompileErrors == {"E2.1.1", "E2.1.2", "E2.1.3", "E2.1.4"}

\* some section's pattern or _before pattern does not compile
AnyCompileError ==
  \E i \in 1..Len(patterns) :
     patterns[i].pattern.error # "" \/ patterns[i].before.error # ""

\* some compiled measure of some section breaks the beat division
AnyBeatError ==
  \E i \in 1..Len(patterns) :
     \/ validateAll(measuresOf(patterns[i].pattern.json), 1, timeSignature) # ""
     \/ validateAll(measuresOf(patterns[i].before.json), 1, timeSignature) # ""

\* some section's lyrics do not fill the section's measures
AnyLyricTimingError ==
  \E i \in 1..Len(patterns) :
     /\ Len(sections[i].lyrics) > 0
     /\ LyricTimingValidatorValidate(
          sections[i].lyrics,
          sectionMeasuresOf(sections[i], patterns[i].pattern.measures,
                            patterns[i].before.measures, 0)) # ""

\* some section's expanded pattern opens with a % that has nothing to repeat
AnyRepeatWithNoPrior ==
  \E i \in 1..Len(patterns) :
     /\ patterns[i].pattern.json # <<>>
     /\ resolveRepeatSymbols(PatternExpanderExpand(patterns[i].pattern.json)).error
          = "E4.1.1"

\* C26: wherever the sections stand in the song, a conversion reports a
\* compile error if any pattern or _before pattern has one; otherwise a
\* beat error if any measure has one; otherwise a lyric timing error if any
\* section has one; otherwise RepeatWithNoPrior if any section has one;
\* and it returns only when there is none of them.
C26_PhaseOrder ==
  (pc \in {"failed", "returned"} /\ patterns # <<>>) =>
    IF AnyCompileError THEN pc = "failed" /\ err \in CompileErrors
    ELSE IF AnyBeatError THEN pc = "failed" /\ err \in BeatErrors
    ELSE IF AnyLyricTimingError THEN pc = "failed" /\ err \in LyricTimingErrors
    ELSE IF AnyRepeatWithNoPrior THEN pc = "failed" /\ err = "E4.1.1"
    ELSE pc = "returned" /\ err = ""

\* the first section has a lyric timing error and an unresolvable %, the
\* second one does not compile: the compile error is the one reported
C26_Witness ==
  /\ pc = "failed"
  /\ Len(sections) = 2
  /\ sections[1].sc = <<"%">>
  /\ sections[1].lyrics = <<<<"a", "_", "2">>>>
  /\ sections[2].sc = <<"H">>
  /\ AnyLyricTimingError
  /\ AnyRepeatWithNoPrior
  /\ err = "E2.1.1"

====
